---- MODULE Spec2Model ----
(***************************************************************************)
(* Model of the analytics/query core of chronicgpt-aws:                    *)
(*   - the client range cache of MetricsDashboard (allMetrics / metrics),  *)
(*     its decision policy (handleDateRangeChange) and its merge;          *)
(*   - the Athena query execution of the /api/metrics/latest route         *)
(*     (StartQueryExecution, waitForQueryCompletion, GetQueryResults and   *)
(*     the catch block that builds the error response).                    *)
(*                                                                         *)
(* Calendar dates are "yyyy-MM-dd" strings in the source and are compared  *)
(* as strings (>=, <=, localeCompare); on that format the string order is  *)
(* the calendar order, so a date is modelled by its day number.            *)
(***************************************************************************)
EXTENDS Integers, Sequences, FiniteSets, TLC

VARIABLES
    allMetrics,       \* MetricsDashboard state: every row loaded so far (the range cache)
    metrics,          \* MetricsDashboard state: the rows on display
    loading,          \* MetricsDashboard state
    error,            \* MetricsDashboard state: NULL or a message
    selectedDate,     \* MetricsDashboard state
    selectedMetrics,  \* MetricsDashboard state: <<>> for null, <<row>> for a row
    pending,          \* fetches of handleDateRangeChange that are awaiting their response
    lastOp,           \* history: the last step of handleDateRangeChange, its arguments and the rule that served it
    fetchHistory,     \* history: the fetch sent last, its outcome, and allMetrics as its closure holds it
    route,            \* /api/metrics/latest: which of the two versions of the route file serves
    regionSet,        \* process.env: a region is configured
    credsSet,         \* process.env: an access key and its secret are configured
    qpc,              \* GET: where the handler stands
    now,              \* Date.now(), in ms
    startTime,        \* waitForQueryCompletion: startTime
    svcState,         \* Athena: the state of the query execution
    svcReason,        \* Athena: its StateChangeReason ("" when absent)
    observed,         \* waitForQueryCompletion: the state the last poll returned
    thrown,           \* GET: the error its catch block caught
    response,         \* GET: the response it returned
    scoreInput,       \* computeReadinessScore: its argument
    readinessScore,   \* computeReadinessScore: its return value
    spc,              \* computeReadinessScore: called or returned
    resultsResponse,  \* GET: the answer of GetQueryResults
    items,            \* GET: items, the raw records
    normalized,       \* GET: normalized, the data of the response
    npc,              \* GET: before or after the rows were built
    bestWorstDays,    \* MetricsDashboard: the value of the memo findBestWorstDays
    streaks,          \* MetricsDashboard: the value of the memo calculateStreaks
    tpc,              \* MetricsDashboard: the memos are still to compute, or computed
    xenv,             \* /api/explanations: process.env, which of the required settings are there
    xroute,           \* /api/explanations: the endpoint asked and the version of its route file
    xcaller,          \* the request comes from fetchExplanationByDate or straight from a client
    dateParam,        \* the date handed to fetchExplanationByDate, then params.date of the route
    xpc,              \* where the helper and the route stand
    httpSent,         \* HTTP requests fetchExplanationByDate has issued
    s3Sent,           \* GetObject commands the route has sent
    xresponse,        \* /api/explanations: the response of the route
    helperResult      \* fetchExplanationByDate: how its promise settled

dashVars == <<allMetrics, metrics, loading, error, selectedDate, selectedMetrics, pending, lastOp,
              fetchHistory>>
queryVars == <<route, regionSet, credsSet, qpc, now, startTime, svcState, svcReason, observed,
               thrown, response>>
scoreVars == <<scoreInput, readinessScore, spc>>
normVars == <<resultsResponse, items, normalized, npc>>
statsVars == <<bestWorstDays, streaks, tpc>>
explVars == <<xenv, xroute, xcaller, dateParam, xpc, httpSent, s3Sent, xresponse, helperResult>>
pureVars == <<scoreVars, normVars, statsVars, explVars>>
vars == <<dashVars, queryVars, pureVars>>

-----------------------------------------------------------------------------
(* Bounds and the row universe *)

MaxDate == 2          \* calendar days 1..MaxDate
MaxResp == 1          \* longest fetched row list
MaxPending == 1       \* fetches in flight at once

Dates == 1..MaxDate
Today == MaxDate
NoDate == 0 - MaxDate \* the empty date string: falsy, and below every date a handler can compute
NULL == "null"

\* The preset buttons (7, 14 and 30 days) and the limit of `days <= 30`, scaled to the calendar.
Presets == {1, 2, MaxDate}
PresetLimit_Low == MaxDate - 1
PresetLimit == MaxDate

\* Two versions of a day's row, told apart by steps (spec example: 999 cached, 100 fetched).
StepsValues == {100, 999}
Rows == [metric_date : Dates, steps : StepsValues]

RECURSIVE SeqsUpTo(_, _)
SeqsUpTo(S, n) ==
    IF n = 0 THEN {<<>>}
    ELSE LET shorter == SeqsUpTo(S, n - 1)
         IN shorter \cup {Append(s, x) : s \in {t \in shorter : Len(t) = n - 1}, x \in S}

\* The rows the route returns: a day's row as the view holds it now (steps 100). The rows of
\* the page load may be of either version.
FetchedRows == {r \in Rows : r.steps = 100}
Responses == SeqsUpTo(FetchedRows, MaxResp)

DatesOf(rows) == {rows[i].metric_date : i \in 1..Len(rows)}
IsSortedUnique(rows) ==
    \A i \in 1..Len(rows), j \in 1..Len(rows) : i < j => rows[i].metric_date < rows[j].metric_date

-----------------------------------------------------------------------------
(* Array helpers, as the JavaScript built-ins compute them *)

\* slice(0, n) in place of slice(-n): the first n rows.
SliceLast_First(rows, n) ==
    IF Len(rows) <= n THEN rows ELSE SubSeq(rows, 1, n)

\* Array.prototype.slice(-n) for n > 0: the last n elements, all of them when there are fewer.
SliceLast(rows, n) ==
    IF Len(rows) <= n THEN rows ELSE SubSeq(rows, Len(rows) - n + 1, Len(rows))

\* The filter with an exclusive upper bound (m.metric_date < endDate).
RECURSIVE FilterByRange_Exclusive(_, _, _)
FilterByRange_Exclusive(rows, startDate, endDate) ==
    IF rows = <<>> THEN <<>>
    ELSE IF Head(rows).metric_date >= startDate /\ Head(rows).metric_date < endDate
         THEN <<Head(rows)>> \o FilterByRange_Exclusive(Tail(rows), startDate, endDate)
         ELSE FilterByRange_Exclusive(Tail(rows), startDate, endDate)

\* Array.prototype.filter with (m) => m.metric_date >= startDate && m.metric_date <= endDate
RECURSIVE FilterByRange(_, _, _)
FilterByRange(rows, startDate, endDate) ==
    IF rows = <<>> THEN <<>>
    ELSE IF Head(rows).metric_date >= startDate /\ Head(rows).metric_date <= endDate
         THEN <<Head(rows)>> \o FilterByRange(Tail(rows), startDate, endDate)
         ELSE FilterByRange(Tail(rows), startDate, endDate)

\* Array.prototype.find on metric_date: <<first match>> or <<>> (undefined)
RECURSIVE FindByDate(_, _)
FindByDate(rows, d) ==
    IF rows = <<>> THEN <<>>
    ELSE IF Head(rows).metric_date = d THEN <<Head(rows)>>
         ELSE FindByDate(Tail(rows), d)

\* A reduce that pushes every row.
DedupeByDate_KeepAll(acc, combined) == acc \o combined

\* The reduce of the merge: keep a row only if no kept row has its metric_date.
RECURSIVE DedupeByDate(_, _)
DedupeByDate(acc, combined) ==
    IF combined = <<>> THEN acc
    ELSE IF FindByDate(acc, Head(combined).metric_date) = <<>>
         THEN DedupeByDate(Append(acc, Head(combined)), Tail(combined))
         ELSE DedupeByDate(acc, Tail(combined))

\* Array.prototype.sort with (a, b) => a.metric_date.localeCompare(b.metric_date): stable.
RECURSIVE InsertByDate(_, _)
InsertByDate(sorted, r) ==
    IF sorted = <<>> THEN <<r>>
    ELSE IF Head(sorted).metric_date <= r.metric_date
         THEN <<Head(sorted)>> \o InsertByDate(Tail(sorted), r)
         ELSE <<r>> \o sorted

\* The sort left out.
SortByDate_Unsorted(rows) == rows

RECURSIVE SortByDate(_)
SortByDate(rows) ==
    IF rows = <<>> THEN <<>>
    ELSE InsertByDate(SortByDate(SubSeq(rows, 1, Len(rows) - 1)), rows[Len(rows)])

-----------------------------------------------------------------------------
(* MetricsDashboard *)

\* A merge that concatenates the fetched rows first, so that the fetched row of a date wins.
MergeMetrics_FetchedWins(prev, newMetrics) ==
    SortByDate(DedupeByDate(<<>>, newMetrics \o prev))

\* setAllMetrics(newMetrics): the fetched rows replace the cache.
MergeMetrics_Replace(prev, newMetrics) ==
    SortByDate(DedupeByDate(<<>>, newMetrics))

\* The updater passed to setAllMetrics: concatenate, dedupe by date, sort.
MergeMetrics(prev, newMetrics) ==
    LET combined == prev \o newMetrics
        unique == DedupeByDate(<<>>, combined)
    IN SortByDate(unique)

filterMetrics(startDate, endDate) == FilterByRange(allMetrics, startDate, endDate)

isDateRangeInLoadedData(startDate, endDate) ==
    IF Len(allMetrics) = 0 THEN FALSE
    ELSE LET firstDate == allMetrics[1].metric_date
             lastDate == allMetrics[Len(allMetrics)].metric_date
         IN startDate >= firstDate /\ endDate <= lastDate

\* A URL with the two dates exchanged.
FetchRequest_Swapped(startDate, endDate) == [start_date |-> endDate, end_date |-> startDate]

\* The request the fetch of handleDateRangeChange sends: the URL's start_date and end_date.
FetchRequest(startDate, endDate) == [start_date |-> startDate, end_date |-> endDate]

\* The history record: the caller or continuation that ran, the arguments it passed, the
\* number of cache rows before it ran and the number of requests it sent.
Op(name, startDate, endDate, days, before, sent) ==
    [op |-> name, startDate |-> startDate, endDate |-> endDate, days |-> days,
     before |-> before, sent |-> sent]

\* The history of the fetch sent last: "none" when the last request was served from the cache,
\* "inflight" until its continuation runs, then "ok" with the rows of its response, or "failed".
\* snapshot is allMetrics as the closure of that call holds it.
FetchHistory(status, rows, snapshot) == [status |-> status, rows |-> rows, snapshot |-> snapshot]

\* handleDateRangeChange up to its await; days = 0 stands for null. `name` is the caller.
handleDateRangeChange(name, startDate, endDate, days) ==
    IF startDate = NoDate \/ endDate = NoDate
    THEN UNCHANGED dashVars
    ELSE IF days # 0 /\ days <= PresetLimit /\ Len(allMetrics) > 0
    THEN /\ metrics' = SliceLast(allMetrics, days)
         /\ UNCHANGED <<allMetrics, loading, error, selectedDate, selectedMetrics, pending>>
         /\ lastOp' = Op(name, startDate, endDate, days, Len(allMetrics), Len(pending') - Len(pending))
         /\ fetchHistory' = FetchHistory("none", <<>>, <<>>)
    ELSE IF isDateRangeInLoadedData(startDate, endDate)
    THEN /\ metrics' = filterMetrics(startDate, endDate)
         /\ UNCHANGED <<allMetrics, loading, error, selectedDate, selectedMetrics, pending>>
         /\ lastOp' = Op(name, startDate, endDate, days, Len(allMetrics), Len(pending') - Len(pending))
         /\ fetchHistory' = FetchHistory("none", <<>>, <<>>)
    ELSE /\ loading' = TRUE
         /\ error' = NULL
         /\ pending' = Append(pending, FetchRequest(startDate, endDate))
         /\ UNCHANGED <<allMetrics, metrics, selectedDate, selectedMetrics>>
         /\ lastOp' = Op(name, startDate, endDate, days, Len(allMetrics), Len(pending') - Len(pending))
         /\ fetchHistory' = FetchHistory("inflight", <<>>, allMetrics)

\* DateRangeControls: a preset button. The window ends at the latest loaded date, or today.
handlePresetChange(days) ==
    LET end == IF Len(allMetrics) > 0 THEN allMetrics[Len(allMetrics)].metric_date ELSE Today
        start == end - (days - 1)
    IN handleDateRangeChange("preset", start, end, days)

\* DateRangeControls: the Apply button of the custom range; it needs both dates filled in.
handleApplyCustomRange(startDate, endDate) ==
    IF startDate # NoDate /\ endDate # NoDate
    THEN handleDateRangeChange("custom", startDate, endDate, 0)
    ELSE UNCHANGED dashVars

RemoveAt(s, i) == SubSeq(s, 1, i - 1) \o SubSeq(s, i + 1, Len(s))

\* The fetches in flight are held in the order they were sent: the last one is the one sent last.
IsNewest(i) == i = Len(pending) /\ fetchHistory.status = "inflight"

\* A continuation that merges into allMetrics as its closure holds it, not into prev.
FetchSuccess_StaleSnapshot(i, newMetrics) ==
    /\ allMetrics' = MergeMetrics(fetchHistory.snapshot, newMetrics)
    /\ metrics' = newMetrics
    /\ loading' = FALSE
    /\ pending' = RemoveAt(pending, i)
    /\ UNCHANGED <<error, selectedDate, selectedMetrics>>
    /\ lastOp' = Op("success", pending[i].start_date, pending[i].end_date, 0, Len(allMetrics), 0)
    /\ fetchHistory' = (IF IsNewest(i) THEN FetchHistory("ok", newMetrics, fetchHistory.snapshot)
                        ELSE fetchHistory)

\* handleDateRangeChange after the await, response.ok with data.data = newMetrics.
FetchSuccess(i, newMetrics) ==
    /\ allMetrics' = MergeMetrics(allMetrics, newMetrics)
    /\ metrics' = newMetrics
    /\ loading' = FALSE
    /\ pending' = RemoveAt(pending, i)
    /\ UNCHANGED <<error, selectedDate, selectedMetrics>>
    /\ lastOp' = Op("success", pending[i].start_date, pending[i].end_date, 0, Len(allMetrics), 0)
    /\ fetchHistory' = (IF IsNewest(i) THEN FetchHistory("ok", newMetrics, fetchHistory.snapshot)
                        ELSE fetchHistory)

\* What the catch block of handleDateRangeChange stores for a thrown value.
ErrorText(err) == IF err.isError THEN err.message ELSE "Failed to load metrics"

\* The values the try block throws: its own Error on a non-OK response, fetch's TypeError.
Thrown == { [isError |-> TRUE, message |-> "Failed to fetch metrics"],
            [isError |-> TRUE, message |-> "Failed to fetch"] }

\* A catch block that also empties the rows on display.
FetchFailure_ClearsRows(i, err) ==
    /\ error' = ErrorText(err)
    /\ loading' = FALSE
    /\ pending' = RemoveAt(pending, i)
    /\ metrics' = <<>>
    /\ UNCHANGED <<allMetrics, selectedDate, selectedMetrics>>
    /\ lastOp' = Op("failure", pending[i].start_date, pending[i].end_date, 0, Len(allMetrics), 0)
    /\ fetchHistory' = (IF IsNewest(i) THEN FetchHistory("failed", <<>>, fetchHistory.snapshot)
                        ELSE fetchHistory)

\* handleDateRangeChange after the await, the try block threw err.
FetchFailure(i, err) ==
    /\ error' = ErrorText(err)
    /\ loading' = FALSE
    /\ pending' = RemoveAt(pending, i)
    /\ UNCHANGED <<allMetrics, metrics, selectedDate, selectedMetrics>>
    /\ lastOp' = Op("failure", pending[i].start_date, pending[i].end_date, 0, Len(allMetrics), 0)
    /\ fetchHistory' = (IF IsNewest(i) THEN FetchHistory("failed", <<>>, fetchHistory.snapshot)
                        ELSE fetchHistory)

handleDateSelect(dateStr) ==
    /\ selectedDate' = dateStr
    /\ selectedMetrics' = FindByDate(allMetrics, dateStr)
    /\ UNCHANGED <<allMetrics, metrics, loading, error, pending, lastOp, fetchHistory>>

\* initialMetrics: what the page's first fetch returned, ORDER BY metric_date, one row a day.
InitialMetrics == {r \in SeqsUpTo(Rows, MaxDate) : IsSortedUnique(r)}

getDefaultDate(initialMetrics) ==
    IF Len(initialMetrics) > 0 THEN initialMetrics[Len(initialMetrics)].metric_date
    ELSE Today - 1

DashInit ==
    \E initialMetrics \in InitialMetrics :
        /\ allMetrics = initialMetrics
        /\ metrics = initialMetrics
        /\ loading = FALSE
        /\ error = NULL
        /\ selectedDate = getDefaultDate(initialMetrics)
        /\ selectedMetrics = (IF Len(initialMetrics) > 0
                              THEN <<initialMetrics[Len(initialMetrics)]>> ELSE <<>>)
        /\ pending = <<>>
        /\ lastOp = Op("init", NoDate, NoDate, 0, 0, 0)
        /\ fetchHistory = FetchHistory("none", <<>>, <<>>)

PresetRequest == \E days \in Presets : handlePresetChange(days)
CustomRequest == \E s \in Dates \cup {NoDate}, e \in Dates \cup {NoDate} : handleApplyCustomRange(s, e)
DateSelect == \E d \in Dates : handleDateSelect(d)
FetchOk == \E i \in 1..Len(pending), newMetrics \in Responses : FetchSuccess(i, newMetrics)
FetchFail == \E i \in 1..Len(pending), err \in Thrown : FetchFailure(i, err)

-----------------------------------------------------------------------------
(* /api/metrics/latest: GET and waitForQueryCompletion *)

PollInterval == 1000
MaxWaitTime == 60000
MaxLatencyTicks == 1  \* a send, or a timer, takes at most this many poll intervals longer

Latencies == {k * PollInterval : k \in 0..MaxLatencyTicks}

\* QueryExecutionState, and the value standing for a response without a state.
NonTerminalStates == {"QUEUED", "RUNNING"}
FailureStates == {"FAILED", "CANCELLED"}
Absent == "ABSENT"

\* StateChangeReason as Athena words it; "" stands for a response without one.
Reasons ==
    { "",
      "Query exhausted resources at this scale factor",
      "Query cancelled by user",
      "SYNTAX_ERROR: line 3:14: Table awsdatacatalog.health_metrics_db.v_metrics_latest_daily does not exist",
      "COLUMN_NOT_FOUND: line 4:15: Column 'region' cannot be resolved",
      "Insufficient permissions to execute the query",
      "Access Denied (Service: Amazon S3; Status Code: 403; Error Code: AccessDenied)",
      "Unable to verify/create output bucket health-results-athena, check credentials",
      "HIVE_METASTORE_ERROR: Database health_metrics_db not found",
      "GENERIC_INTERNAL_ERROR: database connection reset" }

\* String.prototype.includes
Includes(str, part) ==
    \E i \in 1..(Len(str) - Len(part) + 1) : SubSeq(str, i, i + Len(part) - 1) = part

\* An error object: its name, its message and $metadata.httpStatusCode (0 when it has none).
ErrorOf(name, message, httpStatusCode) ==
    [name |-> name, message |-> message, httpStatusCode |-> httpStatusCode]
NoError == ErrorOf("", "", 0)

\* What client.send rejects with.
SdkErrors ==
    { ErrorOf("AccessDeniedException",
              "User is not authorized to perform: athena:StartQueryExecution", 400),
      ErrorOf("CredentialsProviderError", "Could not load credentials from any providers", 0) }

\* The message without the reason.
QueryStateMessage_NoReason(state, reason) == "Query " \o state

\* waitForQueryCompletion on FAILED or CANCELLED: StateChangeReason || "Unknown error" in
\* `Query ${state}: ${reason}`.
QueryStateMessage(state, reason) ==
    "Query " \o state \o ": " \o (IF reason = "" THEN "Unknown error" ELSE reason)

\* waitForQueryCompletion after the loop.
TimeoutMessage(maxWaitTime) ==
    "Query execution timed out after " \o ToString(maxWaitTime) \o "ms"

\* A catch block that always answers with one fixed text.
HelpfulMessage_Generic(errorMessage, errorName) == "An unexpected error occurred"

\* The catch block of GET: the hint that replaces the message in details.
HelpfulMessage(errorMessage, errorName) ==
    IF Includes(errorMessage, "credentials") \/ errorName = "CredentialsProviderError"
    THEN "AWS credentials are missing or invalid. The IAM role may not have proper permissions, or explicit credentials are required."
    ELSE IF Includes(errorMessage, "region")
    THEN "AWS region is not configured. Set AMPLIFY_AWS_REGION environment variable."
    ELSE IF \/ Includes(errorMessage, "AccessDenied")
            \/ Includes(errorMessage, "permission")
            \/ errorName = "AccessDeniedException"
    THEN "AWS credentials don't have permission to query Athena. Check IAM role permissions for Athena access."
    ELSE IF Includes(errorMessage, "Database") \/ Includes(errorMessage, "does not exist")
    THEN "Athena database or view not found. Check ATHENA_DATABASE_NAME and ATHENA_VIEW_NAME environment variables."
    ELSE errorMessage

\* A response of the route; the fields a response lacks are NULL or empty.
Response(status, err, details, originalError, errorName, missingVariables, data) ==
    [status |-> status, error |-> err, details |-> details, originalError |-> originalError,
     errorName |-> errorName, missingVariables |-> missingVariables, data |-> data]
NoResponse == Response(0, NULL, NULL, NULL, NULL, <<>>, <<>>)

\* The catch block of GET, in the version that validates the environment first.
ErrorResponse(err) ==
    LET errorMessage == IF err.message = "" THEN "Unknown error occurred" ELSE err.message
        statusCode == IF err.httpStatusCode = 0 THEN 500 ELSE err.httpStatusCode
        helpfulMessage == HelpfulMessage(errorMessage, err.name)
    IN Response(statusCode, "Failed to fetch metrics from Athena", helpfulMessage, errorMessage,
                err.name, <<>>, <<>>)

\* The catch block of GET, in the other version of the route.
LegacyErrorResponse(err) ==
    LET errorMessage == IF err.message = "" THEN "Unknown error occurred" ELSE err.message
    IN Response(500, "Failed to fetch metrics from Athena", errorMessage, NULL, NULL, <<>>, <<>>)

Routes == {"current", "legacy"}
ResponseFor(r, err) == IF r = "current" THEN ErrorResponse(err) ELSE LegacyErrorResponse(err)

\* GET, the check of missingVars.
MissingVarsResponse ==
    LET missingVars == <<"AMPLIFY_AWS_REGION (or AWS_REGION)">>
    IN Response(500, "Missing required environment variables",
                "The following environment variables are missing: " \o missingVars[1],
                NULL, NULL, missingVars, <<>>)

\* ResultSet.Rows: nothing, or the header row followed by the data rows.
ResultSets == {<<>>} \cup {<<"header">> \o rows : rows \in Responses}

\* rows.slice(1) that keeps the header row.
SliceFrom1_KeepHeader(rows) == rows

\* rows.slice(1)
SliceFrom1(rows) == IF rows = <<>> THEN <<>> ELSE Tail(rows)

\* An exception reaches the catch block, which answers.
Catch(err) ==
    /\ thrown' = err
    /\ response' = ResponseFor(route, err)
    /\ qpc' = "responded"

\* GET up to its first await: the environment checks, getAthenaClient and the send of
\* StartQueryExecutionCommand.
GetBegin ==
    /\ qpc = "request"
    /\ IF route = "current" /\ ~regionSet
       THEN /\ response' = MissingVarsResponse
            /\ qpc' = "responded"
            /\ UNCHANGED thrown
       ELSE IF route = "legacy" /\ ~regionSet
       THEN Catch(ErrorOf("Error", "AWS_REGION environment variable is required", 0))
       ELSE IF route = "legacy" /\ ~credsSet
       THEN Catch(ErrorOf("Error", "AWS credentials not configured. Set AWS_ACCESS_KEY_ID and AWS_SECRET_ACCESS_KEY environment variables.", 0))
       ELSE /\ qpc' = "starting"
            /\ UNCHANGED <<thrown, response>>
    /\ UNCHANGED <<route, regionSet, credsSet, now, startTime, svcState, svcReason, observed>>

\* StartQueryExecution answers with an execution id: waitForQueryCompletion is entered.
StartSucceeds(latency) ==
    /\ qpc = "starting"
    /\ now' = now + latency
    /\ startTime' = now'
    /\ svcState' = "QUEUED"
    /\ qpc' = "loopTest"
    /\ UNCHANGED <<route, regionSet, credsSet, svcReason, observed, thrown, response>>

\* The handler without the check of queryExecutionId: it goes on to wait for an undefined id.
StartFails_Unchecked(latency, err) ==
    /\ qpc = "starting"
    /\ now' = now + latency
    /\ IF err.message = "Failed to start query execution"
       THEN /\ thrown' = err
            /\ qpc' = "loopTest"
            /\ UNCHANGED response
       ELSE Catch(err)
    /\ UNCHANGED <<route, regionSet, credsSet, startTime, svcState, svcReason, observed>>

\* StartQueryExecution answers without an id, or the send rejects.
StartFails(latency, err) ==
    /\ qpc = "starting"
    /\ now' = now + latency
    /\ Catch(err)
    /\ UNCHANGED <<route, regionSet, credsSet, startTime, svcState, svcReason, observed>>

\* The loop condition of waitForQueryCompletion; past the budget the function throws.
LoopTest ==
    /\ qpc = "loopTest"
    /\ IF now - startTime < MaxWaitTime
       THEN /\ qpc' = "polling"
            /\ UNCHANGED <<thrown, response>>
       ELSE Catch(ErrorOf("Error", TimeoutMessage(MaxWaitTime), 0))
    /\ UNCHANGED <<route, regionSet, credsSet, now, startTime, svcState, svcReason, observed>>

\* A loop that returns on every final state, without the throw on FAILED and CANCELLED.
PollReturns_NoThrow(latency, state) ==
    /\ qpc = "polling"
    /\ now' = now + latency
    /\ observed' = state
    /\ IF state = "SUCCEEDED" \/ state \in FailureStates
       THEN /\ qpc' = "fetching"
            /\ UNCHANGED <<thrown, response>>
       ELSE /\ qpc' = "sleeping"
            /\ UNCHANGED <<thrown, response>>
    /\ UNCHANGED <<route, regionSet, credsSet, startTime, svcState, svcReason>>

\* GetQueryExecution answers with `state`: return, throw or go to sleep.
PollReturns(latency, state) ==
    /\ qpc = "polling"
    /\ now' = now + latency
    /\ observed' = state
    /\ IF state = "SUCCEEDED"
       THEN /\ qpc' = "fetching"
            /\ UNCHANGED <<thrown, response>>
       ELSE IF state \in FailureStates
       THEN Catch(ErrorOf("Error", QueryStateMessage(state, svcReason), 0))
       ELSE /\ qpc' = "sleeping"
            /\ UNCHANGED <<thrown, response>>
    /\ UNCHANGED <<route, regionSet, credsSet, startTime, svcState, svcReason>>

\* The send of GetQueryExecution rejects.
PollFails(latency, err) ==
    /\ qpc = "polling"
    /\ now' = now + latency
    /\ Catch(err)
    /\ UNCHANGED <<route, regionSet, credsSet, startTime, svcState, svcReason, observed>>

\* A timer that fires at once on a clock that does not move.
SleepDone_NoAdvance(late) ==
    /\ qpc = "sleeping"
    /\ now' = now
    /\ qpc' = "loopTest"
    /\ UNCHANGED <<route, regionSet, credsSet, startTime, svcState, svcReason, observed, thrown,
                   response>>

\* setTimeout(resolve, pollInterval) fires.
SleepDone(late) ==
    /\ qpc = "sleeping"
    /\ now' = now + PollInterval + late
    /\ qpc' = "loopTest"
    /\ UNCHANGED <<route, regionSet, credsSet, startTime, svcState, svcReason, observed, thrown,
                   response>>

\* GetQueryResults answers: the header row is dropped and the rows are returned.
ResultsReturn(latency, rows) ==
    /\ qpc = "fetching"
    /\ now' = now + latency
    /\ response' = Response(200, NULL, NULL, NULL, NULL, <<>>, SliceFrom1(rows))
    /\ qpc' = "responded"
    /\ UNCHANGED <<route, regionSet, credsSet, startTime, svcState, svcReason, observed, thrown>>

\* The send of GetQueryResults rejects.
ResultsFail(latency, err) ==
    /\ qpc = "fetching"
    /\ now' = now + latency
    /\ Catch(err)
    /\ UNCHANGED <<route, regionSet, credsSet, startTime, svcState, svcReason, observed>>

\* Athena moves the execution forward: QUEUED, RUNNING, then one of the final states.
ServiceAdvances ==
    /\ qpc \in {"loopTest", "polling", "sleeping"}
    /\ \/ /\ svcState = "QUEUED"
          /\ svcState' = "RUNNING"
          /\ UNCHANGED svcReason
       \/ /\ svcState = "RUNNING"
          /\ svcState' = "SUCCEEDED"
          /\ UNCHANGED svcReason
       \/ /\ svcState \in NonTerminalStates
          /\ \E final \in FailureStates, reason \in Reasons :
                /\ svcState' = final
                /\ svcReason' = reason
    /\ UNCHANGED <<route, regionSet, credsSet, qpc, now, startTime, observed, thrown, response>>

QueryIdle ==
    /\ route = "current"
    /\ regionSet = TRUE
    /\ credsSet = TRUE
    /\ qpc = "idle"
    /\ now = 0
    /\ startTime = 0
    /\ svcState = "NONE"
    /\ svcReason = ""
    /\ observed = "NONE"
    /\ thrown = NoError
    /\ response = NoResponse

QueryInit ==
    /\ route \in Routes
    /\ regionSet \in BOOLEAN
    /\ credsSet \in BOOLEAN
    /\ qpc = "request"
    /\ now = 0
    /\ startTime = 0
    /\ svcState = "NONE"
    /\ svcReason = ""
    /\ observed = "NONE"
    /\ thrown = NoError
    /\ response = NoResponse

DashIdle ==
    /\ allMetrics = <<>>
    /\ metrics = <<>>
    /\ loading = FALSE
    /\ error = NULL
    /\ selectedDate = getDefaultDate(<<>>)
    /\ selectedMetrics = <<>>
    /\ pending = <<>>
    /\ lastOp = Op("init", NoDate, NoDate, 0, 0, 0)
    /\ fetchHistory = FetchHistory("none", <<>>, <<>>)

StartOk == \E latency \in Latencies : StartSucceeds(latency)
StartNotOk ==
    \E latency \in Latencies,
       err \in SdkErrors \cup {ErrorOf("Error", "Failed to start query execution", 0)} :
        StartFails(latency, err)
PollOk == \E latency \in Latencies, state \in {svcState, Absent} : PollReturns(latency, state)
PollNotOk == \E latency \in Latencies, err \in SdkErrors : PollFails(latency, err)
Sleep == \E late \in Latencies : SleepDone(late)
ResultsOk == \E latency \in Latencies, rows \in ResultSets : ResultsReturn(latency, rows)
ResultsNotOk == \E latency \in Latencies, err \in SdkErrors : ResultsFail(latency, err)

-----------------------------------------------------------------------------
(* /api/metrics/latest: computeReadinessScore *)

\* A value of type number | null: <<>> is null, <<n>> the number n, and the three numbers that
\* are not finite are written as the quotients they are: 1/0, -1/0 and 0/0.
Null == <<>>
Num(n) == <<n>>
Infinity == <<1, 0>>
NegInfinity == <<0 - 1, 0>>
NaN == <<0, 0>>
IsFiniteNumber(x) == Len(x) = 1

\* The component scores are fractions: (hrv - 20) / 80 * 100 is a multiple of 1/4 and
\* steps / 15000 * 100 a multiple of 1/150. A score is held as a whole number of ScoreUnit-ths,
\* a weight as a whole number of hundredths.
ScoreUnit == 300

\* ((x + add) * mul) for a finite x; an infinite x keeps or flips its sign with mul.
Scaled(x, add, mul) ==
    IF IsFiniteNumber(x) THEN Num((x[1] + add) * mul)
    ELSE IF x = NaN THEN NaN
    ELSE IF (x = Infinity) = (mul > 0) THEN Infinity ELSE NegInfinity

\* Math.max(a, x) and Math.min(a, x) for a finite a.
MathMax(a, x) ==
    IF x = NaN THEN NaN
    ELSE IF x = Infinity THEN Infinity
    ELSE IF x = NegInfinity THEN Num(a)
    ELSE Num(IF x[1] > a THEN x[1] ELSE a)
MathMin(a, x) ==
    IF x = NaN THEN NaN
    ELSE IF x = NegInfinity THEN NegInfinity
    ELSE IF x = Infinity THEN Num(a)
    ELSE Num(IF x[1] < a THEN x[1] ELSE a)

\* a + b
Plus(a, b) ==
    IF a = NaN \/ b = NaN THEN NaN
    ELSE IF IsFiniteNumber(a) /\ IsFiniteNumber(b) THEN Num(a[1] + b[1])
    ELSE IF IsFiniteNumber(a) THEN b
    ELSE IF IsFiniteNumber(b) THEN a
    ELSE IF a = b THEN a ELSE NaN

\* Math.min(100, Math.max(0, ((metric.hrv - 20) / 80) * 100))
hrvScore(hrv) == MathMin(100 * ScoreUnit, MathMax(0, Scaled(hrv, 0 - 20, 375)))

\* Math.min(100, Math.max(0, ((90 - metric.resting_hr) / 50) * 100))
rhrScore(resting_hr) == MathMin(100 * ScoreUnit, MathMax(0, Scaled(resting_hr, 0 - 90, 0 - 600)))

\* The score of steps without the cap at 100.
stepsScore_Uncapped(steps) == Scaled(steps, 0, 2)

\* Math.min(100, (metric.steps / 15000) * 100)
stepsScore(steps) == MathMin(100 * ScoreUnit, Scaled(steps, 0, 2))

\* A score that is used as it stands (sleep_score, recovery_index, movement_index).
asIs(value) == Scaled(value, 0, ScoreUnit)

\* A guard that lets a single component through.
MinComponents_One == 2 - 1

\* if (weightedScores.length < 2) return null
MinComponents == 2

\* The whole of the five weights, whichever components are present.
totalWeightOf_Fixed(weightedScores) == 100

\* weightedScores.reduce((sum, item) => sum + item.weight, 0)
RECURSIVE totalWeightOf(_)
totalWeightOf(weightedScores) ==
    IF weightedScores = <<>> THEN 0
    ELSE Head(weightedScores).weight + totalWeightOf(Tail(weightedScores))

\* weightedScores.reduce((sum, item) => sum + (item.score * item.weight), 0)
RECURSIVE weightedSumOf(_)
weightedSumOf(weightedScores) ==
    IF weightedScores = <<>> THEN Num(0)
    ELSE LET item == Head(weightedScores)
             rest == weightedSumOf(Tail(weightedScores))
         IN Plus(Scaled(item.score, 0, item.weight), rest)

\* Math.round(Math.min(100, Math.max(0, weightedSum / totalWeight))) for totalWeight > 0, where
\* weightedSum counts 1/(ScoreUnit * 100) and totalWeight hundredths. Math.max and Math.min
\* hand a NaN on, and so does Math.round. Math.round rounds a half up, but the quotient is
\* computed in doubles (0.2, 0.15 and 0.1 are not doubles): where it is exactly k + 1/2 the
\* double is that, or a little less, and halfUp tells which. With whole-numbered fields any
\* other quotient is at least 1/(2 * ScoreUnit * 100) away from a half and rounds as it should.
roundedScore(weightedSum, totalWeight, halfUp) ==
    LET q == ScoreUnit * totalWeight
    IN IF weightedSum = NaN THEN NaN
       ELSE IF weightedSum = Infinity THEN Num(100)
       ELSE IF weightedSum = NegInfinity THEN Num(0)
       ELSE LET p == weightedSum[1]
            IN IF p < 0 THEN Num(0)
               ELSE IF p > 100 * q THEN Num(100)
               ELSE IF (2 * p + q) % (2 * q) = 0 /\ ~halfUp
                    THEN Num(((2 * p + q) \div (2 * q)) - 1)
                    ELSE Num((2 * p + q) \div (2 * q))

\* A component that is pushed when its field is not null.
Component(present, score, weight) ==
    IF present THEN <<[score |-> score, weight |-> weight]>> ELSE <<>>

computeReadinessScore(metric, halfUp) ==
    LET weightedScores ==
            Component(metric.hrv # Null, hrvScore(metric.hrv), 25)
            \o Component(metric.sleep_score # Null, asIs(metric.sleep_score), 25)
            \o Component(metric.recovery_index # Null, asIs(metric.recovery_index), 20)
            \o Component(metric.resting_hr # Null, rhrScore(metric.resting_hr), 15)
            \o (IF metric.movement_index # Null
                THEN Component(TRUE, asIs(metric.movement_index), 10)
                ELSE Component(metric.steps # Null, stepsScore(metric.steps), 10))
    IN IF Len(weightedScores) < MinComponents THEN Null
       ELSE roundedScore(weightedSumOf(weightedScores), totalWeightOf(weightedScores), halfUp)

\* The fields a row can carry after parseNumber: null, numbers within and outside the ranges the
\* scorer assumes, and the infinities that parseFloat reads from "Infinity" and "-Infinity".
HrvValues == {Null, Num(10), Num(60), Num(75), Num(130)}
RestingHrValues == {Null, Num(35), Num(62), Num(95)}
SleepScoreValues == {Null, Num(0), Num(80), Num(120), Infinity}
RecoveryIndexValues == {Null, Num(0 - 20), Num(55), Num(71), NegInfinity}
MovementIndexValues == {Null, Num(0), Num(43), Num(100)}
StepsInputs == {Null, Num(0 - 3000), Num(0), Num(8000), Num(30000)}
MetricInputs ==
    [hrv : HrvValues, resting_hr : RestingHrValues, sleep_score : SleepScoreValues,
     recovery_index : RecoveryIndexValues, movement_index : MovementIndexValues,
     steps : StepsInputs]
NoMetric ==
    [hrv |-> Null, resting_hr |-> Null, sleep_score |-> Null, recovery_index |-> Null,
     movement_index |-> Null, steps |-> Null]

\* One call of computeReadinessScore.
ScoreCall ==
    /\ spc = "call"
    /\ \E halfUp \in BOOLEAN : readinessScore' = computeReadinessScore(scoreInput, halfUp)
    /\ spc' = "returned"
    /\ UNCHANGED scoreInput

ScoreIdle ==
    /\ scoreInput = NoMetric
    /\ readinessScore = Null
    /\ spc = "idle"

ScoreInit ==
    /\ scoreInput \in MetricInputs
    /\ readinessScore = Null
    /\ spc = "call"

-----------------------------------------------------------------------------
(* /api/metrics/latest: getCellValue and normalizeMetric *)

\* A JavaScript value by its typeof: a string, a number, a boolean, null, undefined, or an
\* object (here a Date).
JsValue(type, str, num, bool) == [type |-> type, str |-> str, num |-> num, bool |-> bool]
JsString(str) == JsValue("string", str, Null, FALSE)
JsNumber(num) == JsValue("number", "", num, FALSE)
JsBoolean(bool) == JsValue("boolean", "", Null, bool)
JsNull == JsValue("null", "", Null, FALSE)
JsUndefined == JsValue("undefined", "", Null, FALSE)
JsDate == JsValue("object", "", Null, FALSE)

\* A cell (Datum) of a result row: the one of its seven fields that is defined, and the value
\* of that field. "empty" is a cell without any of them ({}), "undefined" a row without the cell.
Cell(kind, value) == [kind |-> kind, value |-> value]
EmptyCell == Cell("empty", JsUndefined)
NoCell == Cell("undefined", JsUndefined)

StartsWith(str, i, word) ==
    /\ i + Len(word) - 1 <= Len(str)
    /\ SubSeq(str, i, i + Len(word) - 1) = word
CharAt(str, i) == SubSeq(str, i, i)
DecimalDigits == "0123456789"
IsDigit(c) == \E d \in 1..10 : CharAt(DecimalDigits, d) = c
DigitOf(c) == (CHOOSE d \in 1..10 : CharAt(DecimalDigits, d) = c) - 1

\* The index of the first character at or after i that is not white space.
RECURSIVE SkipWhiteSpace(_, _)
SkipWhiteSpace(str, i) ==
    IF i <= Len(str) /\ CharAt(str, i) = " " THEN SkipWhiteSpace(str, i + 1) ELSE i

\* The run of digits that starts at i: its value and the index behind it.
RECURSIVE ReadDigits(_, _, _)
ReadDigits(str, i, acc) ==
    IF i <= Len(str) /\ IsDigit(CharAt(str, i))
    THEN ReadDigits(str, i + 1, 10 * acc + DigitOf(CharAt(str, i)))
    ELSE [value |-> acc, next |-> i]

\* The longest prefix of str, after leading white space, that is a numeric literal: its value
\* (NaN when there is none) and the index behind it. The strings of the model hold no decimal
\* point and no exponent, so a literal is a sign followed by Infinity or by digits.
ReadNumber(str) ==
    LET i == SkipWhiteSpace(str, 1)
        negative == StartsWith(str, i, "-")
        j == IF negative \/ StartsWith(str, i, "+") THEN i + 1 ELSE i
    IN IF StartsWith(str, j, "Infinity")
       THEN [num |-> IF negative THEN NegInfinity ELSE Infinity, next |-> j + 8]
       ELSE IF j <= Len(str) /\ IsDigit(CharAt(str, j))
       THEN LET digits == ReadDigits(str, j, 0)
            IN [num |-> Num(IF negative THEN 0 - digits.value ELSE digits.value),
                next |-> digits.next]
       ELSE [num |-> NaN, next |-> i]

\* Number.parseFloat: what follows the literal is ignored.
parseFloat(str) == ReadNumber(str).num

\* Number(value) of a string or a number: the whole string, white space aside, has to be the
\* literal, and the empty string is 0.
NumberOf(value) ==
    IF value.type = "number" THEN value.num
    ELSE IF value.type = "string"
    THEN LET read == ReadNumber(value.str)
         IN IF SkipWhiteSpace(value.str, 1) > Len(value.str) THEN Num(0)
            ELSE IF read.num # NaN /\ SkipWhiteSpace(value.str, read.next) > Len(value.str)
            THEN read.num
            ELSE NaN
    ELSE NaN

\* String.prototype.toLowerCase
UpperCaseLetters == "ABCDEFGHIJKLMNOPQRSTUVWXYZ"
LowerCaseLetters == "abcdefghijklmnopqrstuvwxyz"
LowerCaseOf(c) ==
    IF \E k \in 1..26 : CharAt(UpperCaseLetters, k) = c
    THEN CharAt(LowerCaseLetters, CHOOSE k \in 1..26 : CharAt(UpperCaseLetters, k) = c)
    ELSE c
RECURSIVE toLowerCase(_)
toLowerCase(str) ==
    IF Len(str) = 0 THEN ""
    ELSE LowerCaseOf(CharAt(str, 1)) \o toLowerCase(SubSeq(str, 2, Len(str)))

\* String(value), for String(raw.metric_date ?? "") and its like.
StringOf(value) ==
    CASE value.type = "string" -> value.str
      [] value.type = "number" ->
            IF IsFiniteNumber(value.num) THEN ToString(value.num[1])
            ELSE IF value.num = Infinity THEN "Infinity"
            ELSE IF value.num = NegInfinity THEN "-Infinity" ELSE "NaN"
      [] value.type = "boolean" -> IF value.bool THEN "true" ELSE "false"
      [] value.type = "object" -> "Mon Jan 15 2024 00:00:00 GMT+0000 (Coordinated Universal Time)"
      [] OTHER -> ""

\* getCellValue: the first of the seven fields that is defined, null for a cell without any.
getCellValue(cell) ==
    IF cell.kind = "undefined" THEN JsNull
    ELSE IF cell.kind = "VarCharValue" THEN cell.value
    ELSE IF cell.kind = "DoubleValue" THEN cell.value
    ELSE IF cell.kind = "BigIntValue" THEN JsNumber(NumberOf(cell.value))
    ELSE IF cell.kind = "IntegerValue" THEN cell.value
    ELSE IF cell.kind = "BooleanValue" THEN cell.value
    ELSE IF cell.kind = "TimestampValue" THEN cell.value
    ELSE IF cell.kind = "DateValue" THEN cell.value
    ELSE JsNull

\* A parseNumber that takes the empty string for 0, as Number("") does.
parseNumber_EmptyIsZero(value) ==
    IF value.type \in {"null", "undefined"} THEN Null
    ELSE IF value.type = "number" THEN value.num
    ELSE IF value.type = "string"
    THEN IF value.str = "" THEN Num(0)
         ELSE IF parseFloat(value.str) = NaN THEN Null ELSE parseFloat(value.str)
    ELSE Null

\* normalizeMetric.parseNumber
parseNumber(value) ==
    IF value.type \in {"null", "undefined"} \/ value = JsString("") THEN Null
    ELSE IF value.type = "number" THEN value.num
    ELSE IF value.type = "string"
    THEN LET parsed == parseFloat(value.str)
         IN IF parsed = NaN THEN Null ELSE parsed
    ELSE Null

\* A parseBoolean that takes true, 1 and "true" in any case, and nothing else.
parseBoolean_Strict(value) ==
    IF value.type = "boolean" THEN value.bool
    ELSE IF value.type = "string" THEN toLowerCase(value.str) = "true"
    ELSE IF value.type = "number" THEN value.num = Num(1)
    ELSE FALSE

\* normalizeMetric.parseBoolean
parseBoolean(value) ==
    IF value.type = "boolean" THEN value.bool
    ELSE IF value.type = "string" THEN toLowerCase(value.str) = "true" \/ value.str = "1"
    ELSE IF value.type = "number" THEN value.num # Num(0)
    ELSE FALSE

\* raw.<name>: undefined for a column the result set does not have.
Field(raw, name) == IF name \in DOMAIN raw THEN raw[name] ELSE JsUndefined

\* A score taken over from the raw record when it carries one.
readinessOf_Upstream(raw, fields, halfUp) ==
    IF parseNumber(Field(raw, "readiness_score")) # Null
    THEN parseNumber(Field(raw, "readiness_score"))
    ELSE computeReadinessScore(
             [hrv |-> fields.hrv, resting_hr |-> fields.resting_hr,
              sleep_score |-> fields.sleep_score, recovery_index |-> fields.recovery_index,
              movement_index |-> fields.movement_index, steps |-> fields.steps], halfUp)

\* normalizeMetric: normalized.readiness_score = computeReadinessScore({...})
readinessOf(raw, fields, halfUp) ==
    computeReadinessScore(
        [hrv |-> fields.hrv, resting_hr |-> fields.resting_hr,
         sleep_score |-> fields.sleep_score, recovery_index |-> fields.recovery_index,
         movement_index |-> fields.movement_index, steps |-> fields.steps], halfUp)

\* parseNumber(value) ?? fallback
OrElse(num, fallback) == IF num = Null THEN fallback ELSE num

\* normalizeMetric; Null stands for the undefined of rn as well.
normalizeMetric(raw, halfUp) ==
    LET fields ==
            [metric_date |-> StringOf(Field(raw, "metric_date")),
             hrv |-> parseNumber(Field(raw, "hrv")),
             resting_hr |-> parseNumber(Field(raw, "resting_hr")),
             sleep_score |-> parseNumber(Field(raw, "sleep_score")),
             steps |-> parseNumber(Field(raw, "steps")),
             recovery_index |-> parseNumber(Field(raw, "recovery_index")),
             movement_index |-> parseNumber(Field(raw, "movement_index")),
             hrv_baseline |-> parseNumber(Field(raw, "hrv_baseline")),
             rhr_baseline |-> parseNumber(Field(raw, "rhr_baseline")),
             recovery_baseline |-> parseNumber(Field(raw, "recovery_baseline")),
             movement_baseline |-> parseNumber(Field(raw, "movement_baseline")),
             steps_baseline |-> parseNumber(Field(raw, "steps_baseline")),
             low_hrv_flag |-> parseBoolean(Field(raw, "low_hrv_flag")),
             high_rhr_flag |-> parseBoolean(Field(raw, "high_rhr_flag")),
             low_sleep_flag |-> parseBoolean(Field(raw, "low_sleep_flag")),
             low_recovery_flag |-> parseBoolean(Field(raw, "low_recovery_flag")),
             low_movement_flag |-> parseBoolean(Field(raw, "low_movement_flag")),
             low_steps_flag |-> parseBoolean(Field(raw, "low_steps_flag")),
             is_anomalous |-> parseBoolean(Field(raw, "is_anomalous")),
             anomaly_severity |-> OrElse(parseNumber(Field(raw, "anomaly_severity")), Num(0)),
             readiness_score |-> Null,
             _metadata |-> StringOf(Field(raw, "_metadata")),
             processed_at |-> StringOf(Field(raw, "processed_at")),
             rn |-> parseNumber(Field(raw, "rn"))]
    IN [fields EXCEPT !.readiness_score = readinessOf(raw, fields, halfUp)]

\* row.Data?.[idx]
CellAt(row, idx) == IF idx <= Len(row) THEN row[idx] ELSE NoCell

\* columns.forEach((col, idx) => { obj[col] = getCellValue(row.Data?.[idx]) }): a name that two
\* columns bear is bound by the last of them.
ItemOf(columns, row) ==
    [col \in {columns[idx] : idx \in 1..Len(columns)} |->
        LET last == CHOOSE idx \in 1..Len(columns) :
                        /\ columns[idx] = col
                        /\ \A other \in 1..Len(columns) : columns[other] = col => other <= idx
        IN getCellValue(CellAt(row, last))]

\* The cells of the model, of every kind: strings that are and are not numbers and booleans,
\* numbers, booleans, Date objects for the two kinds of time, a cell without a value and a
\* missing cell.
MaxDataRows == 2      \* data rows of a result set of sample rows

CellStrings ==
    {"", "42", "0", "-5", " 7", "12abc", "abc", "1", "true", "TRUE", "True", "false",
     "Infinity", "NaN", "2024-01-15"}
VarCharCells == {Cell("VarCharValue", JsString(str)) : str \in CellStrings}
DoubleCells == {Cell("DoubleValue", JsNumber(Num(n))) : n \in {0, 42}}
BigIntCells == {Cell("BigIntValue", JsString("9")), Cell("BigIntValue", JsNumber(Num(7)))}
IntegerCells == {Cell("IntegerValue", JsNumber(Num(n))) : n \in {0 - 5, 0, 1, 2}}
BooleanCells == {Cell("BooleanValue", JsBoolean(b)) : b \in BOOLEAN}
TimeCells == {Cell("TimestampValue", JsDate), Cell("DateValue", JsDate)}
Cells ==
    VarCharCells \cup DoubleCells \cup BigIntCells \cup IntegerCells \cup BooleanCells
    \cup TimeCells \cup {EmptyCell, NoCell}

\* The columns of the view, in two orders that put a number field and a flag in the second and
\* third place.
ColumnLists ==
    { <<"metric_date", "hrv", "low_hrv_flag", "sleep_score", "readiness_score">>,
      <<"metric_date", "is_anomalous", "recovery_index", "readiness_score", "sleep_score">> }

\* The header row: the names of the columns, as strings.
HeaderRow(columns) == [idx \in 1..Len(columns) |-> Cell("VarCharValue", JsString(columns[idx]))]

\* Data rows: a date, any two cells, and two more cells that may be missing.
DateCells == {Cell("VarCharValue", JsString("2024-01-15")), EmptyCell}
FourthCells == {NoCell, Cell("VarCharValue", JsString("80")), Cell("VarCharValue", JsString("Infinity"))}
FifthCells == {NoCell, Cell("VarCharValue", JsString("99")), Cell("DoubleValue", JsNumber(Num(12)))}
DataRows ==
    {<<c1, c2, c3, c4, c5>> : c1 \in DateCells, c2 \in Cells, c3 \in Cells,
                              c4 \in FourthCells, c5 \in FifthCells}
SampleRows ==
    { <<Cell("VarCharValue", JsString("2024-01-14")), Cell("VarCharValue", JsString("60")),
        Cell("VarCharValue", JsString("true")), Cell("VarCharValue", JsString("80")),
        Cell("VarCharValue", JsString("99"))>>,
      <<Cell("VarCharValue", JsString("2024-01-15")), Cell("VarCharValue", JsString("false")),
        Cell("VarCharValue", JsString("71")), Cell("VarCharValue", JsString("55"))>>,
      <<Cell("VarCharValue", JsString("2024-01-16")), EmptyCell, EmptyCell>> }

\* GetQueryResultsCommandOutput: ResultSetMetadata.ColumnInfo (the names) and Rows (the Data of
\* each). A response without a ResultSet has neither; otherwise the rows are the header row and
\* the data rows: one data row of any cells, or up to MaxDataRows of the sample rows.
ResultsResponses ==
    {[ColumnInfo |-> <<>>, Rows |-> <<>>]}
    \cup {[ColumnInfo |-> columns, Rows |-> <<HeaderRow(columns)>> \o dataRows] :
            columns \in ColumnLists, dataRows \in SeqsUpTo(SampleRows, MaxDataRows)}
    \cup {[ColumnInfo |-> columns, Rows |-> <<HeaderRow(columns), row>>] :
            columns \in ColumnLists, row \in DataRows}

\* GET from the answer of GetQueryResults to its response: items and normalized.
BuildData ==
    /\ npc = "results"
    /\ LET columns == resultsResponse.ColumnInfo
           dataRows == SliceFrom1(resultsResponse.Rows)
           built == [j \in 1..Len(dataRows) |-> ItemOf(columns, dataRows[j])]
       IN /\ items' = built
          /\ \E halfUp \in [1..Len(dataRows) -> BOOLEAN] :
                normalized' = [j \in 1..Len(dataRows) |-> normalizeMetric(built[j], halfUp[j])]
    /\ npc' = "responded"
    /\ UNCHANGED resultsResponse

NormIdle ==
    /\ resultsResponse = [ColumnInfo |-> <<>>, Rows |-> <<>>]
    /\ items = <<>>
    /\ normalized = <<>>
    /\ npc = "idle"

NormInit ==
    /\ resultsResponse \in ResultsResponses
    /\ items = <<>>
    /\ normalized = <<>>
    /\ npc = "results"

-----------------------------------------------------------------------------
(* MetricsDashboard: the memos findBestWorstDays and calculateStreaks *)

MaxStatDays == 3      \* the days a cache of the statistics holds at most

\* The cache rows as the statistics read them: the date, the score and the anomaly flag.
StatDates == 1..MaxStatDays
StatScores == {Null, Num(0), Num(40), Num(70)}
StatRow(d, score, anomalous) ==
    [metric_date |-> d, readiness_score |-> score, is_anomalous |-> anomalous]

\* allMetrics as the merge keeps it: one row a day, in ascending date order.
StatCaches ==
    LET attrs == StatScores \X BOOLEAN
        dates == {ds \in SeqsUpTo(StatDates, MaxStatDays) :
                    \A i \in 1..Len(ds), j \in 1..Len(ds) : i < j => ds[i] < ds[j]}
    IN UNION { { [i \in 1..Len(ds) |-> StatRow(ds[i], a[i][1], a[i][2])] :
                   a \in [1..Len(ds) -> attrs] } : ds \in dates }

\* Array.prototype.filter with m => m.readiness_score !== null
RECURSIVE FilterScored(_)
FilterScored(rows) ==
    IF rows = <<>> THEN <<>>
    ELSE IF Head(rows).readiness_score # Null
         THEN <<Head(rows)>> \o FilterScored(Tail(rows))
         ELSE FilterScored(Tail(rows))

\* (x.readiness_score || 0)
OrZero(x) == IF IsFiniteNumber(x) THEN x[1] ELSE 0

\* A comparator turned round: (a.readiness_score || 0) - (b.readiness_score || 0).
CompareByScore_Ascending(a, b) == OrZero(a.readiness_score) - OrZero(b.readiness_score)

\* The comparator (a, b) => (b.readiness_score || 0) - (a.readiness_score || 0)
CompareByScore(a, b) == OrZero(b.readiness_score) - OrZero(a.readiness_score)

\* Array.prototype.sort is stable: a row goes behind every row the comparator does not put
\* behind it, so rows that compare equal keep the order they had.
RECURSIVE InsertByScore(_, _)
InsertByScore(sorted, r) ==
    IF sorted = <<>> THEN <<r>>
    ELSE IF CompareByScore(Head(sorted), r) <= 0
         THEN <<Head(sorted)>> \o InsertByScore(Tail(sorted), r)
         ELSE <<r>> \o sorted

RECURSIVE SortByScore(_)
SortByScore(rows) ==
    IF rows = <<>> THEN <<>>
    ELSE InsertByScore(SortByScore(SubSeq(rows, 1, Len(rows) - 1)), rows[Len(rows)])

\* The memo findBestWorstDays: <<>> for null, else <<[best, worst]>>.
findBestWorstDays(rows) ==
    IF Len(rows) = 0 THEN <<>>
    ELSE LET validMetrics == FilterScored(rows)
         IN IF Len(validMetrics) = 0 THEN <<>>
            ELSE LET sorted == SortByScore(validMetrics)
                 IN <<[best |-> sorted[1], worst |-> sorted[Len(sorted)]]>>

\* The test of the first loop without the score.
IsGoodDay_AnyScore(row) == ~row.is_anomalous

\* The test of the first loop of calculateStreaks.
IsGoodDay(row) == ~row.is_anomalous /\ row.readiness_score # Null

\* The test of the second loop.
IsBadDay(row) == row.is_anomalous

\* for (let i = sorted.length - 1; i >= 0; i--) { if (...) goodStreak++ else break }
RECURSIVE goodStreak(_, _)
goodStreak(sorted, i) ==
    IF i >= 1 /\ IsGoodDay(sorted[i]) THEN 1 + goodStreak(sorted, i - 1) ELSE 0

RECURSIVE badStreak(_, _)
badStreak(sorted, i) ==
    IF i >= 1 /\ IsBadDay(sorted[i]) THEN 1 + badStreak(sorted, i - 1) ELSE 0

\* The memo calculateStreaks.
calculateStreaks(rows) ==
    IF Len(rows) = 0 THEN [good |-> 0, bad |-> 0]
    ELSE LET sorted == SortByDate(rows)
         IN [good |-> goodStreak(sorted, Len(sorted)), bad |-> badStreak(sorted, Len(sorted))]

\* A render computes the two memos from allMetrics.
Render ==
    /\ tpc = "stale"
    /\ bestWorstDays' = findBestWorstDays(allMetrics)
    /\ streaks' = calculateStreaks(allMetrics)
    /\ tpc' = "rendered"

StatsIdle ==
    /\ bestWorstDays = <<>>
    /\ streaks = [good |-> 0, bad |-> 0]
    /\ tpc = "idle"

\* The dashboard as a page load or a merge leaves it, its memos to compute.
StatsInit ==
    /\ allMetrics \in StatCaches
    /\ metrics = allMetrics
    /\ loading = FALSE
    /\ error = NULL
    /\ selectedDate = getDefaultDate(allMetrics)
    /\ selectedMetrics = (IF Len(allMetrics) > 0 THEN <<allMetrics[Len(allMetrics)]>> ELSE <<>>)
    /\ pending = <<>>
    /\ lastOp = Op("init", NoDate, NoDate, 0, 0, 0)
    /\ fetchHistory = FetchHistory("none", <<>>, <<>>)
    /\ bestWorstDays = <<>>
    /\ streaks = [good |-> 0, bad |-> 0]
    /\ tpc = "stale"

-----------------------------------------------------------------------------
(* /api/explanations/[date], /api/explanations/latest and the client helper
   fetchExplanationByDate *)

\* Dates a caller may hand over: a well-formed one, one of the right shape that names no day,
\* misshapen ones, one with escaped hyphens, one with a broken escape, and plain words.
DateParams ==
    { "2024-01-15", "2024-13-40", "2024-1-5", "20240115", "2024/01/15", "2024-01-15 ",
      "2024%2D01%2D15", "2024-01-1%", "not found" }

\* getYesterdayDate(): toISOString().split('T')[0] of the day before, always of the date shape.
Yesterday == "2024-01-14"

\* /^\d{4}-\d{2}-\d{2}$/.test(str)
MatchesDateFormat(str) ==
    /\ Len(str) = 10
    /\ \A i \in {1, 2, 3, 4, 6, 7, 9, 10} : IsDigit(CharAt(str, i))
    /\ CharAt(str, 5) = "-"
    /\ CharAt(str, 8) = "-"

\* The character an escape sequence stands for; "" when the three characters are no escape
\* sequence. The table holds the escapes of DateParams.
Unescaped(code) ==
    CASE code = "%2D" -> "-"
      [] code = "%20" -> " "
      [] code = "%2F" -> "/"
      [] code = "%25" -> "%"
      [] OTHER -> ""

\* decodeURIComponent(str): <<>> when it throws URIError, else <<the decoded string>>.
RECURSIVE decodeURIComponent(_)
decodeURIComponent(str) ==
    IF Len(str) = 0 THEN <<"">>
    ELSE IF CharAt(str, 1) # "%"
    THEN LET rest == decodeURIComponent(SubSeq(str, 2, Len(str)))
         IN IF rest = <<>> THEN <<>> ELSE <<CharAt(str, 1) \o rest[1]>>
    ELSE IF Len(str) >= 3 /\ Unescaped(SubSeq(str, 1, 3)) # ""
    THEN LET rest == decodeURIComponent(SubSeq(str, 4, Len(str)))
         IN IF rest = <<>> THEN <<>> ELSE <<Unescaped(SubSeq(str, 1, 3)) \o rest[1]>>
    ELSE <<>>

\* encodeURIComponent(str): letters, digits and - _ . ! ~ * ' ( ) stay, the rest is escaped.
RECURSIVE encodeURIComponent(_)
encodeURIComponent(str) ==
    IF Len(str) = 0 THEN ""
    ELSE LET c == CharAt(str, 1)
             escaped == CASE c = " " -> "%20"
                          [] c = "/" -> "%2F"
                          [] c = "%" -> "%25"
                          [] OTHER -> c
         IN escaped \o encodeURIComponent(SubSeq(str, 2, Len(str)))

\* missingVars.join(", ")
RECURSIVE JoinComma(_)
JoinComma(list) ==
    IF Len(list) = 0 THEN ""
    ELSE IF Len(list) = 1 THEN list[1]
    ELSE list[1] \o ", " \o JoinComma(Tail(list))

\* NextResponse.json of the explanation routes: the status and the fields of the body.
XResponse(status, err, details, originalError, missingVariables, explanation) ==
    [status |-> status, error |-> err, details |-> details, originalError |-> originalError,
     missingVariables |-> missingVariables, explanation |-> explanation]

NoXResponse == XResponse(0, NULL, NULL, NULL, <<>>, NULL)

\* getS3Client(): <<>> when a client is returned, else <<the error thrown>>.
getS3Client(version, env) ==
    IF version = "current"
    THEN IF ~env.region
         THEN <<ErrorOf("Error", "AWS region not configured. Set AMPLIFY_AWS_REGION or AWS_REGION environment variable.", 0)>>
         ELSE <<>>
    ELSE IF ~env.region
         THEN <<ErrorOf("Error", "AWS_REGION environment variable is required", 0)>>
         ELSE IF ~env.creds
         THEN <<ErrorOf("Error", "AWS credentials not configured. Set AWS_ACCESS_KEY_ID and AWS_SECRET_ACCESS_KEY environment variables.", 0)>>
         ELSE <<>>

PatientIdError ==
    ErrorOf("Error", "ULTRAHUMAN_PATIENT_ID or ULTRAHUMAN_EMAIL environment variable is required", 0)
BucketError ==
    ErrorOf("Error", "EXPLANATIONS_BUCKET_NAME or HEALTH_RESULTS_PROCESSED_BUCKET environment variable is required", 0)

\* helpfulMessage of the catch block of /api/explanations/[date].
ByDateHelpfulMessage(errorMessage, errorName) ==
    IF Includes(errorMessage, "credentials") \/ errorName = "CredentialsProviderError"
    THEN "AWS credentials are missing or invalid. The IAM role may not have proper permissions, or explicit credentials are required."
    ELSE IF Includes(errorMessage, "region")
    THEN "AWS region is not configured. Set AMPLIFY_AWS_REGION environment variable."
    ELSE IF Includes(errorMessage, "AccessDenied") \/ Includes(errorMessage, "permission")
            \/ errorName = "AccessDenied"
    THEN "AWS credentials don't have permission to access S3. Check IAM role permissions for S3 read access."
    ELSE IF Includes(errorMessage, "NoSuchBucket") \/ Includes(errorMessage, "bucket")
    THEN "S3 bucket not found or not accessible. Check EXPLANATIONS_BUCKET_NAME environment variable."
    ELSE errorMessage

\* helpfulMessage of the catch block of /api/explanations/latest.
LatestHelpfulMessage(errorMessage) ==
    IF Includes(errorMessage, "credentials")
    THEN "AWS credentials are missing or invalid. Check AWS_ACCESS_KEY_ID and AWS_SECRET_ACCESS_KEY."
    ELSE IF Includes(errorMessage, "region")
    THEN "AWS region is not configured. Set AWS_REGION environment variable."
    ELSE IF Includes(errorMessage, "AccessDenied") \/ Includes(errorMessage, "permission")
    THEN "AWS credentials don't have permission to access S3. Check IAM permissions."
    ELSE errorMessage

\* The catch block of the route: 404 for a missing object, else 500 with the message.
XErrorResponse(r, err) ==
    LET errorMessage == IF err.message = "" THEN "Unknown error occurred" ELSE err.message
    IN IF err.name = "NoSuchKey" \/ err.httpStatusCode = 404
       THEN XResponse(404,
                      IF r.endpoint = "date" THEN "Explanation not found for the specified date"
                      ELSE "Explanation not found for yesterday's date",
                      NULL, NULL, <<>>, NULL)
       ELSE IF r.endpoint = "date" /\ r.version = "current"
       THEN XResponse(500, "Failed to fetch explanation from S3",
                      ByDateHelpfulMessage(errorMessage, err.name), errorMessage, <<>>, NULL)
       ELSE IF r.endpoint = "date"
       THEN XResponse(500, "Failed to fetch explanation from S3", errorMessage, NULL, <<>>, NULL)
       ELSE XResponse(500, "Failed to fetch explanation from S3",
                      LatestHelpfulMessage(errorMessage), errorMessage, <<>>, NULL)

\* The route answers: nothing more is sent.
XRespond(resp) ==
    /\ xresponse' = resp
    /\ xpc' = "responded"
    /\ UNCHANGED <<xenv, xroute, xcaller, dateParam, httpSent, s3Sent, helperResult>>

\* The route sends its GetObjectCommand and awaits the answer.
XSend ==
    /\ s3Sent' = s3Sent + 1
    /\ xpc' = "sending"
    /\ UNCHANGED <<xenv, xroute, xcaller, dateParam, httpSent, xresponse, helperResult>>

\* GET of /api/explanations/[date] up to its await of s3Client.send: getS3Client,
\* decodeURIComponent, the test of the format, the patient id and the bucket.
GetByDate ==
    /\ xpc = "request"
    /\ xroute.endpoint = "date"
    /\ LET client == getS3Client(xroute.version, xenv)
           decoded == decodeURIComponent(dateParam)
       IN IF client # <<>>
          THEN XRespond(XErrorResponse(xroute, client[1]))
          ELSE IF decoded = <<>>
          THEN XRespond(XErrorResponse(xroute, ErrorOf("URIError", "URI malformed", 0)))
          ELSE IF ~MatchesDateFormat(decoded[1])
          THEN XRespond(XResponse(400, "Invalid date format. Expected YYYY-MM-DD",
                                  NULL, NULL, <<>>, NULL))
          ELSE IF ~xenv.patient
          THEN XRespond(XErrorResponse(xroute, PatientIdError))
          ELSE IF ~xenv.bucket
          THEN XRespond(XErrorResponse(xroute, BucketError))
          ELSE XSend

\* missingVars of /api/explanations/latest, in the order of the pushes.
MissingVars(version, env) ==
    (IF ~env.region THEN <<"AMPLIFY_AWS_REGION (or AWS_REGION)">> ELSE <<>>)
    \o (IF version = "legacy" /\ ~env.creds
        THEN <<"AMPLIFY_AWS_ACCESS_KEY_ID (or AWS_ACCESS_KEY_ID)",
               "AMPLIFY_AWS_SECRET_ACCESS_KEY (or AWS_SECRET_ACCESS_KEY)">>
        ELSE <<>>)
    \o (IF ~env.bucket THEN <<"EXPLANATIONS_BUCKET_NAME or HEALTH_RESULTS_PROCESSED_BUCKET">>
        ELSE <<>>)
    \o (IF ~env.patient THEN <<"ULTRAHUMAN_PATIENT_ID or ULTRAHUMAN_EMAIL">> ELSE <<>>)

\* GET of /api/explanations/latest up to its await of s3Client.send: once missingVars is
\* empty neither getS3Client nor the later checks can throw.
GetLatest ==
    /\ xpc = "request"
    /\ xroute.endpoint = "latest"
    /\ LET missingVars == MissingVars(xroute.version, xenv)
       IN IF Len(missingVars) > 0
          THEN XRespond(XResponse(500, "Missing required environment variables",
                                  "The following environment variables are missing: "
                                      \o JoinComma(missingVars),
                                  NULL, missingVars, NULL))
          ELSE XSend

\* What S3 hands back: no Body, an explanation document, a document without the field,
\* or text that is no JSON.
S3Bodies == {"none", "explanation", "empty", "garbage"}

\* The errors s3Client.send rejects with.
S3Errors ==
    { ErrorOf("NoSuchKey", "The specified key does not exist.", 404),
      ErrorOf("AccessDenied", "Access Denied", 403),
      ErrorOf("NoSuchBucket", "The specified bucket does not exist", 404),
      ErrorOf("CredentialsProviderError", "Could not load credentials from any providers", 0) }

\* s3Client.send resolves: the Body is read, parsed and answered.
S3Answers(body) ==
    /\ xpc = "sending"
    /\ IF body = "none"
       THEN XRespond(XResponse(404, "Explanation file not found", NULL, NULL, <<>>, NULL))
       ELSE IF body = "garbage"
       THEN XRespond(XErrorResponse(xroute,
                ErrorOf("SyntaxError", "Unexpected token < in JSON at position 0", 0)))
       ELSE XRespond(XResponse(200, NULL, NULL, NULL, <<>>,
                               IF body = "explanation" THEN "Recovery was low" ELSE ""))

\* s3Client.send rejects: the catch block answers.
S3Rejects(err) ==
    /\ xpc = "sending"
    /\ XRespond(XErrorResponse(xroute, err))

HelperResult(outcome, message) == [outcome |-> outcome, message |-> message]

\* The catch block of fetchExplanationByDate: null for a not-found message, else rethrown.
HelperCatch(message) ==
    IF Includes(message, "not found") \/ Includes(message, "not available")
    THEN HelperResult("null", "")
    ELSE HelperResult("threw", message)

\* fetchExplanationByDate up to its await of fetch.
HelperCall ==
    /\ xcaller = "helper"
    /\ xpc = "call"
    /\ IF ~MatchesDateFormat(dateParam)
       THEN /\ helperResult' = HelperCatch("Invalid date format: " \o dateParam
                                               \o ". Expected YYYY-MM-DD")
            /\ xpc' = "returned"
            /\ UNCHANGED <<dateParam, httpSent>>
       ELSE /\ dateParam' = encodeURIComponent(dateParam)
            /\ httpSent' = httpSent + 1
            /\ xpc' = "request"
            /\ UNCHANGED helperResult
    /\ UNCHANGED <<xenv, xroute, xcaller, s3Sent, xresponse>>

\* fetchExplanationByDate after its await of fetch: null for 404, an error for another
\* status that is not ok, else the body.
HelperSettles ==
    /\ xcaller = "helper"
    /\ xpc = "responded"
    /\ helperResult' =
         (IF xresponse.status = 200 THEN HelperResult("json", "")
          ELSE IF xresponse.status = 404 THEN HelperResult("null", "")
          ELSE HelperCatch(xresponse.error))
    /\ xpc' = "returned"
    /\ UNCHANGED <<xenv, xroute, xcaller, dateParam, httpSent, s3Sent, xresponse>>

Envs == [region : BOOLEAN, creds : BOOLEAN, bucket : BOOLEAN, patient : BOOLEAN]
XRoutes == [endpoint : {"date", "latest"}, version : Routes]

ExplainIdle ==
    /\ xenv = [region |-> TRUE, creds |-> TRUE, bucket |-> TRUE, patient |-> TRUE]
    /\ xroute = [endpoint |-> "date", version |-> "current"]
    /\ xcaller = "direct"
    /\ dateParam = ""
    /\ xpc = "idle"
    /\ httpSent = 0
    /\ s3Sent = 0
    /\ xresponse = NoXResponse
    /\ helperResult = HelperResult("pending", "")

\* One request: any configuration, either endpoint in either version; the by-date endpoint
\* is asked through the helper or straight by a client, with any of the dates.
ExplainInit ==
    /\ xenv \in Envs
    /\ xroute \in XRoutes
    /\ xcaller \in {"helper", "direct"}
    /\ dateParam \in DateParams \cup {""}
    /\ IF xroute.endpoint = "date"
       THEN dateParam \in DateParams
       ELSE xcaller = "direct" /\ dateParam = ""
    /\ xpc = (IF xcaller = "helper" THEN "call" ELSE "request")
    /\ httpSent = 0
    /\ s3Sent = 0
    /\ xresponse = NoXResponse
    /\ helperResult = HelperResult("pending", "")

-----------------------------------------------------------------------------
(* The specifications: the dashboard, one request to the route, one call of the scorer,
   one result set made into rows, one render of the memos and one explanation request *)

Init == DashInit /\ QueryIdle /\ ScoreIdle /\ NormIdle /\ StatsIdle /\ ExplainIdle

\* The step leaves at most n fetches in flight.
InFlightAtMost(n) == Len(pending') <= n

Next ==
    \/ PresetRequest /\ InFlightAtMost(MaxPending) /\ UNCHANGED <<queryVars, pureVars>>
    \/ CustomRequest /\ InFlightAtMost(MaxPending) /\ UNCHANGED <<queryVars, pureVars>>
    \/ DateSelect /\ UNCHANGED <<queryVars, pureVars>>
    \/ FetchOk /\ UNCHANGED <<queryVars, pureVars>>
    \/ FetchFail /\ UNCHANGED <<queryVars, pureVars>>

Spec == Init /\ [][Next]_vars

\* The dashboard with two fetches in flight: nothing keeps a range request from being sent
\* while the fetch of an earlier one is awaited. handleDateSelect is left out: it writes
\* selectedDate and selectedMetrics only, which no other handler reads.
MaxOverlap == 2

RNext ==
    \/ PresetRequest /\ InFlightAtMost(MaxOverlap) /\ UNCHANGED <<queryVars, pureVars>>
    \/ CustomRequest /\ InFlightAtMost(MaxOverlap) /\ UNCHANGED <<queryVars, pureVars>>
    \/ FetchOk /\ UNCHANGED <<queryVars, pureVars>>
    \/ FetchFail /\ UNCHANGED <<queryVars, pureVars>>

RaceSpec == Init /\ [][RNext]_vars

QInit == DashIdle /\ QueryInit /\ ScoreIdle /\ NormIdle /\ StatsIdle /\ ExplainIdle

QNext ==
    \/ GetBegin /\ UNCHANGED <<dashVars, pureVars>>
    \/ StartOk /\ UNCHANGED <<dashVars, pureVars>>
    \/ StartNotOk /\ UNCHANGED <<dashVars, pureVars>>
    \/ LoopTest /\ UNCHANGED <<dashVars, pureVars>>
    \/ PollOk /\ UNCHANGED <<dashVars, pureVars>>
    \/ PollNotOk /\ UNCHANGED <<dashVars, pureVars>>
    \/ Sleep /\ UNCHANGED <<dashVars, pureVars>>
    \/ ResultsOk /\ UNCHANGED <<dashVars, pureVars>>
    \/ ResultsNotOk /\ UNCHANGED <<dashVars, pureVars>>
    \/ ServiceAdvances /\ UNCHANGED <<dashVars, pureVars>>

QuerySpec == QInit /\ [][QNext]_vars


\* The steps of the handler itself: every await of GET settles (the send answers or rejects,
\* the timer fires). Athena is under no obligation to move the execution forward.
HandlerNext ==
    \/ GetBegin /\ UNCHANGED <<dashVars, pureVars>>
    \/ StartOk /\ UNCHANGED <<dashVars, pureVars>>
    \/ StartNotOk /\ UNCHANGED <<dashVars, pureVars>>
    \/ LoopTest /\ UNCHANGED <<dashVars, pureVars>>
    \/ PollOk /\ UNCHANGED <<dashVars, pureVars>>
    \/ PollNotOk /\ UNCHANGED <<dashVars, pureVars>>
    \/ Sleep /\ UNCHANGED <<dashVars, pureVars>>
    \/ ResultsOk /\ UNCHANGED <<dashVars, pureVars>>
    \/ ResultsNotOk /\ UNCHANGED <<dashVars, pureVars>>

QueryLiveSpec == QInit /\ [][QNext]_vars /\ WF_vars(HandlerNext)

SInit == DashIdle /\ QueryIdle /\ ScoreInit /\ NormIdle /\ StatsIdle /\ ExplainIdle

SNext == ScoreCall /\ UNCHANGED <<dashVars, queryVars, normVars, statsVars, explVars>>

ScoreSpec == SInit /\ [][SNext]_vars

NInit == DashIdle /\ QueryIdle /\ ScoreIdle /\ NormInit /\ StatsIdle /\ ExplainIdle

NNext == BuildData /\ UNCHANGED <<dashVars, queryVars, scoreVars, statsVars, explVars>>

NormSpec == NInit /\ [][NNext]_vars

TInit == StatsInit /\ QueryIdle /\ ScoreIdle /\ NormIdle /\ ExplainIdle

TNext == Render /\ UNCHANGED <<dashVars, queryVars, scoreVars, normVars, explVars>>

StatsSpec == TInit /\ [][TNext]_vars

XInit == DashIdle /\ QueryIdle /\ ScoreIdle /\ NormIdle /\ StatsIdle /\ ExplainInit

XNext ==
    \/ HelperCall /\ UNCHANGED <<dashVars, queryVars, scoreVars, normVars, statsVars>>
    \/ GetByDate /\ UNCHANGED <<dashVars, queryVars, scoreVars, normVars, statsVars>>
    \/ GetLatest /\ UNCHANGED <<dashVars, queryVars, scoreVars, normVars, statsVars>>
    \/ (\E body \in S3Bodies : S3Answers(body))
           /\ UNCHANGED <<dashVars, queryVars, scoreVars, normVars, statsVars>>
    \/ (\E err \in S3Errors : S3Rejects(err))
           /\ UNCHANGED <<dashVars, queryVars, scoreVars, normVars, statsVars>>
    \/ HelperSettles /\ UNCHANGED <<dashVars, queryVars, scoreVars, normVars, statsVars>>

ExplainSpec == XInit /\ [][XNext]_vars

-----------------------------------------------------------------------------
(* /api/metrics/latest: the query the route builds from the URL's parameters *)

DefaultLookback == 29

\* GET: start_date and end_date select the custom range, else days, else the last 30 days.
\* current_date is Today; days = 0 stands for an absent parameter.
BuildQuery(startDate, endDate, days) ==
    IF startDate # NoDate /\ endDate # NoDate
    THEN [from |-> startDate, to |-> endDate]
    ELSE IF days # 0
    THEN [from |-> Today - (days - 1), to |-> Today]
    ELSE [from |-> Today - DefaultLookback, to |-> Today]

-----------------------------------------------------------------------------
(* Properties of the range cache *)

RowsOf(rows) == {rows[i] : i \in 1..Len(rows)}
MergeStep == Len(pending') < Len(pending) /\ lastOp'.op = "success"
RangeRequested == lastOp.op \in {"preset", "custom"}
Contained ==
    /\ Len(allMetrics) > 0
    /\ allMetrics[1].metric_date <= lastOp.startDate
    /\ lastOp.endDate <= allMetrics[Len(allMetrics)].metric_date
IsSuffixOfCache(rows) ==
    /\ Len(rows) <= Len(allMetrics)
    /\ \A i \in 1..Len(rows) : rows[i] = allMetrics[Len(allMetrics) - Len(rows) + i]

C2_StaleCacheWins ==
    [][MergeStep =>
        \A i \in 1..Len(allMetrics) :
            (\E k \in 1..Len(metrics') : metrics'[k].metric_date = allMetrics[i].metric_date)
            => /\ \E j \in 1..Len(allMetrics') : allMetrics'[j] = allMetrics[i]
               /\ \A j \in 1..Len(allMetrics') :
                    allMetrics'[j].metric_date = allMetrics[i].metric_date
                    => allMetrics'[j] = allMetrics[i]]_vars

\* After a merge the cache holds steps 999 for a date whose fetched row had steps 100.
C2_Witness ==
    /\ lastOp.op = "success"
    /\ Len(allMetrics) = lastOp.before
    /\ \E k \in 1..Len(metrics), j \in 1..Len(allMetrics) :
          /\ metrics[k].metric_date = allMetrics[j].metric_date
          /\ metrics[k].steps = 100
          /\ allMetrics[j].steps = 999

\* C3: the merge is idempotent. Right after the fetched rows were merged (they are the rows on
\* display), merging the same rows once more yields the cache as it is.
C3_MergeIdempotent ==
    lastOp.op = "success" => MergeMetrics(allMetrics, metrics) = allMetrics

\* A merge has appended a fetched row behind the rows the cache held.
C3_Witness ==
    /\ lastOp.op = "success"
    /\ lastOp.before >= 1
    /\ Len(allMetrics) = lastOp.before + 1
    /\ metrics # <<>>
    /\ allMetrics[Len(allMetrics)] = metrics[1]

\* C4: no step removes a date from the cache, and the cache changes only in the step that
\* merges a successful response.
C4_CacheGrowsOnlyByMerge ==
    [][/\ DatesOf(allMetrics) \subseteq DatesOf(allMetrics')
       /\ (allMetrics' # allMetrics => MergeStep)]_vars

\* A merge has seeded a cache that was empty.
C4_Witness ==
    /\ lastOp.op = "success"
    /\ lastOp.before = 0
    /\ Len(allMetrics) = 1

\* C5: after a preset request of N days made on a cache of at least N rows, the rows on display
\* are the last N cache rows and the request sent no query.
C5_PresetServedFromCache ==
    (lastOp.op = "preset" /\ lastOp.before >= lastOp.days)
    => /\ lastOp.sent = 0
       /\ Len(metrics) = lastOp.days
       /\ \A i \in 1..lastOp.days : metrics[i] = allMetrics[Len(allMetrics) - lastOp.days + i]

\* A preset of N days was served from a cache of more than N rows.
C5_Witness ==
    /\ lastOp.op = "preset"
    /\ lastOp.before > lastOp.days
    /\ lastOp.sent = 0
    /\ Len(metrics) = lastOp.days

\* C6 as stated: a preset request made on a cache of fewer rows than presetDayCount is served
\* by the containment rule when its range lies within the cache, and by a remote fetch otherwise.
C6_PresetNeedsEnoughRows ==
    (lastOp.op = "preset" /\ lastOp.before < lastOp.days)
    => IF Contained
       THEN /\ lastOp.sent = 0
            /\ RowsOf(metrics) = {r \in RowsOf(allMetrics) :
                                    lastOp.startDate <= r.metric_date /\ r.metric_date <= lastOp.endDate}
       ELSE lastOp.sent = 1

\* C6 (amended): a preset request made on a non-empty cache is served by the preset rule, also
\* when the cache holds fewer rows than presetDayCount: no query is sent and the rows on display
\* are the last min(N, cache size) cache rows. Only on an empty cache does it send a query.
C6_PresetServedWheneverCacheNonEmpty ==
    /\ (lastOp.op = "preset" /\ lastOp.before > 0)
       => /\ lastOp.sent = 0
          /\ Len(metrics) = (IF lastOp.before < lastOp.days THEN lastOp.before ELSE lastOp.days)
          /\ IsSuffixOfCache(metrics)
    /\ (lastOp.op = "preset" /\ lastOp.before = 0)
       => /\ lastOp.sent = 1
          /\ metrics = <<>>

\* A preset of N days was served from a cache of fewer than N rows, whose range is not contained.
C6_Witness ==
    /\ lastOp.op = "preset"
    /\ lastOp.before > 0
    /\ lastOp.before < lastOp.days
    /\ ~Contained
    /\ lastOp.sent = 0
    /\ metrics = allMetrics

\* C7: after a request without a preset whose range lies within the first and last cache dates,
\* the rows on display are the cache rows with startDate <= date <= endDate, in cache order, and
\* the request sent no query.
C7_ContainedServedByFilter ==
    (lastOp.op = "custom" /\ Contained)
    => /\ lastOp.sent = 0
       /\ RowsOf(metrics) = {r \in RowsOf(allMetrics) :
                               lastOp.startDate <= r.metric_date /\ r.metric_date <= lastOp.endDate}
       /\ \A i \in 1..Len(metrics), j \in 1..Len(metrics) :
             i < j => metrics[i].metric_date < metrics[j].metric_date

\* A custom range was served by the filter, with a row on each of its two bounds and a cache row
\* left out.
C7_Witness ==
    /\ lastOp.op = "custom"
    /\ lastOp.sent = 0
    /\ metrics # <<>>
    /\ Len(metrics) < Len(allMetrics)
    /\ metrics[1].metric_date = lastOp.startDate
    /\ metrics[Len(metrics)].metric_date = lastOp.endDate

-----------------------------------------------------------------------------
(* Properties of the query execution *)

\* The request ended because the budget ran out: polls were answered, none with a final state,
\* and no send rejected.
TimedOut ==
    /\ qpc = "responded"
    /\ observed \in NonTerminalStates \cup {Absent}
    /\ thrown # NoError
    /\ thrown \notin SdkErrors

\* The request ended because a poll was answered with FAILED or CANCELLED.
QueryFailed ==
    /\ qpc = "responded"
    /\ observed \in FailureStates

\* The details a caller can receive for a query that failed or was cancelled.
FailureDetails ==
    {ResponseFor(route, ErrorOf("Error", QueryStateMessage(state, reason), 0)).details :
        state \in FailureStates, reason \in Reasons}

FinalStates == {"SUCCEEDED", "FAILED", "CANCELLED"}
InLoop == qpc \in {"loopTest", "polling", "sleeping"}

\* C11: the steps of one execution are ordered submit, status polls, result retrieval. The
\* query is submitted from the start of the request only; a status poll is issued from the loop
\* test only and never after a poll was answered SUCCEEDED, FAILED or CANCELLED; the result
\* retrieval is issued only by the step in which a poll is answered SUCCEEDED, and after it the
\* handler only answers; once an error is caught (FAILED, CANCELLED, the timeout, a missing
\* execution id) the handler has answered, and after its answer it takes no step.
C11_SubmitPollsThenResults ==
    [][/\ (qpc' = "starting" /\ qpc # "starting") => qpc = "request"
       /\ (qpc' = "polling" /\ qpc # "polling")
          => (qpc = "loopTest" /\ observed \notin FinalStates)
       /\ (qpc' = "fetching" /\ qpc # "fetching")
          => (qpc = "polling" /\ observed' = "SUCCEEDED")
       /\ qpc = "fetching" => qpc' \in {"fetching", "responded"}
       /\ thrown' # NoError => qpc' = "responded"
       /\ qpc = "responded" => qpc' = "responded"]_vars

\* The result retrieval is in flight, after two polls of which the last was answered SUCCEEDED.
C11_Witness ==
    /\ qpc = "fetching"
    /\ observed = "SUCCEEDED"
    /\ now - startTime >= PollInterval

\* C12: the polling loop terminates. Given that every await settles, a request in the loop
\* leaves it: for the result retrieval after SUCCEEDED, or with an error. A poll is only in
\* flight while less than the budget had elapsed at the loop test, whatever state the polls
\* were answered with, and a loop left on a poll answered with no final state (an absent state
\* too) was left by the timeout with the budget elapsed.
C12_PollingTerminates ==
    /\ (InLoop ~> ~InLoop)
    /\ [](qpc = "polling" => now - startTime < MaxWaitTime)
    /\ []((qpc = "responded" /\ observed \in NonTerminalStates \cup {Absent, "NONE"}
                             /\ thrown.message = TimeoutMessage(MaxWaitTime))
           => now - startTime >= MaxWaitTime)
    /\ [](qpc = "fetching" => observed = "SUCCEEDED")
    /\ []((qpc = "responded" /\ observed \in FailureStates) => thrown # NoError)

\* A loop whose polls were answered without a state has ended in the timeout.
C12_Witness ==
    /\ qpc = "responded"
    /\ observed = Absent
    /\ thrown.message = TimeoutMessage(MaxWaitTime)
    /\ now - startTime >= MaxWaitTime

\* C14: a request whose submission was answered without an execution id has failed: the handler
\* has answered with an error, no status poll was answered or is in flight, waitForQueryCompletion
\* was never entered and no rows were returned.
C14_NoIdNoPollNoResults ==
    thrown.message = "Failed to start query execution"
    => /\ qpc = "responded"
       /\ response.status = 500
       /\ response.error = "Failed to fetch metrics from Athena"
       /\ response.data = <<>>
       /\ observed = "NONE"
       /\ svcState = "NONE"

\* The submission was answered without an id and the handler has answered with the error.
C14_Witness ==
    /\ qpc = "responded"
    /\ thrown = ErrorOf("Error", "Failed to start query execution", 0)
    /\ response.originalError = "Failed to start query execution"

-----------------------------------------------------------------------------
(* Properties of computeReadinessScore *)

\* The weighted components a row has: its non-null fields, movement index and steps counting once.
PresentComponents(m) ==
    {f \in {"hrv", "sleep_score", "recovery_index", "resting_hr"} : m[f] # Null}
    \cup (IF m.movement_index # Null \/ m.steps # Null THEN {"movement"} ELSE {})

\* The table of the components: transform and weight (in hundredths), the score in ScoreUnit-ths.
\* stepsCapped tells whether the steps score stops at 100.
Clamp01Times100(x) == MathMin(100 * ScoreUnit, MathMax(0, x))
StatedScore(m, f, stepsCapped) ==
    CASE f = "hrv" -> Clamp01Times100(Scaled(m.hrv, 0 - 20, 375))
      [] f = "sleep_score" -> Scaled(m.sleep_score, 0, ScoreUnit)
      [] f = "recovery_index" -> Scaled(m.recovery_index, 0, ScoreUnit)
      [] f = "resting_hr" -> Clamp01Times100(Scaled(m.resting_hr, 0 - 90, 0 - 600))
      [] f = "movement" ->
            IF m.movement_index # Null THEN Scaled(m.movement_index, 0, ScoreUnit)
            ELSE IF stepsCapped THEN MathMin(100 * ScoreUnit, Scaled(m.steps, 0, 2))
            ELSE Scaled(m.steps, 0, 2)
StatedWeight(f) ==
    CASE f = "hrv" -> 25
      [] f = "sleep_score" -> 25
      [] f = "recovery_index" -> 20
      [] f = "resting_hr" -> 15
      [] f = "movement" -> 10

RECURSIVE SumOfWeights(_)
SumOfWeights(fs) ==
    IF fs = {} THEN 0
    ELSE LET f == CHOOSE g \in fs : TRUE IN StatedWeight(f) + SumOfWeights(fs \ {f})
RECURSIVE SumOfScores(_, _, _)
SumOfScores(m, fs, stepsCapped) ==
    IF fs = {} THEN Num(0)
    ELSE LET f == CHOOSE g \in fs : TRUE
         IN Plus(Scaled(StatedScore(m, f, stepsCapped), 0, StatedWeight(f)),
                 SumOfScores(m, fs \ {f}, stepsCapped))

\* The whole numbers nearest to clamp[0,100](sum(score * weight) / sum(weight)): one, or two
\* when the average lies halfway between them. An average that is not finite has none, but
\* for an infinite one its clamp, 0 or 100.
NearestScores(m, stepsCapped) ==
    LET fs == PresentComponents(m)
        sum == SumOfScores(m, fs, stepsCapped)
        q == ScoreUnit * SumOfWeights(fs)
    IN IF sum = NaN THEN {}
       ELSE IF sum = Infinity THEN {100}
       ELSE IF sum = NegInfinity THEN {0}
       ELSE LET p == IF sum[1] < 0 THEN 0 ELSE IF sum[1] > 100 * q THEN 100 * q ELSE sum[1]
            IN {k \in 0..100 : /\ 2 * (p - k * q) <= q
                               /\ 2 * (k * q - p) <= q}

\* C15: a call on a row with at least 2 weighted components returns a whole number from 0
\* to 100, whatever the values of the fields.
C15_ScoreInRange ==
    (spc = "returned" /\ Cardinality(PresentComponents(scoreInput)) >= 2)
    => /\ IsFiniteNumber(readinessScore)
       /\ 0 <= readinessScore[1]
       /\ readinessScore[1] <= 100

\* C16: a call on a row with fewer than 2 weighted components returns null; a row with movement
\* index and steps as its only fields has one component.
C16_NullBelowTwoComponents ==
    /\ (spc = "returned" /\ Cardinality(PresentComponents(scoreInput)) < 2)
       => readinessScore = Null
    /\ (spc = "returned" /\ Cardinality(PresentComponents(scoreInput)) >= 2)
       => readinessScore # Null
    /\ (spc = "returned" /\ scoreInput.hrv = Null /\ scoreInput.sleep_score = Null
                         /\ scoreInput.recovery_index = Null /\ scoreInput.resting_hr = Null)
       => readinessScore = Null

\* A row with movement index and steps only was scored null.
C16_Witness ==
    /\ spc = "returned"
    /\ scoreInput.movement_index # Null
    /\ scoreInput.steps # Null
    /\ PresentComponents(scoreInput) = {"movement"}
    /\ readinessScore = Null

\* C17 as stated: with at least 2 components the score is the weighted average over the present
\* components, clamped to [0, 100] and rounded to a nearest whole number, the steps score being
\* steps / 15000 * 100. (Nothing is said here of an average that is not a number.)
C17_WeightedAverageAsStated ==
    (spc = "returned" /\ Cardinality(PresentComponents(scoreInput)) >= 2)
    => LET nearest == NearestScores(scoreInput, FALSE)
       IN nearest # {} => (IsFiniteNumber(readinessScore) /\ readinessScore[1] \in nearest)

\* C17 (amended): with at least 2 components the score is the weighted average over the present
\* components only, clamped to [0, 100] and rounded to a nearest whole number, with the
\* transforms and weights of the table, a movement component that is the movement index when it
\* is not null and otherwise min(100, steps / 15000 * 100); an average exactly halfway between
\* two whole numbers gives either of them, and an average of Infinity and -Infinity gives NaN.
\* hrv = 60 and sleepScore = 80 alone give 65.
C17_WeightedAverageOfPresent ==
    /\ (spc = "returned" /\ Cardinality(PresentComponents(scoreInput)) >= 2)
       => LET nearest == NearestScores(scoreInput, TRUE)
          IN IF nearest = {} THEN readinessScore = NaN
             ELSE IsFiniteNumber(readinessScore) /\ readinessScore[1] \in nearest
    /\ (spc = "returned" /\ scoreInput = [NoMetric EXCEPT !.hrv = Num(60), !.sleep_score = Num(80)])
       => readinessScore = Num(65)

\* The row with hrv = 60 and sleepScore = 80 alone was scored 65.
C17_Witness ==
    /\ spc = "returned"
    /\ scoreInput = [NoMetric EXCEPT !.hrv = Num(60), !.sleep_score = Num(80)]
    /\ readinessScore = Num(65)

-----------------------------------------------------------------------------
(* Properties of the rows built from a result set *)

NumericFields ==
    {"hrv", "resting_hr", "sleep_score", "steps", "recovery_index", "movement_index",
     "hrv_baseline", "rhr_baseline", "recovery_baseline", "movement_baseline", "steps_baseline"}
BooleanFields ==
    {"low_hrv_flag", "high_rhr_flag", "low_sleep_flag", "low_recovery_flag",
     "low_movement_flag", "low_steps_flag", "is_anomalous"}
ColumnNames == {resultsResponse.ColumnInfo[i] : i \in 1..Len(resultsResponse.ColumnInfo)}

\* The i-th cell of the j-th data row, which is row j + 1 of the result set.
DataCell(j, i) ==
    LET row == resultsResponse.Rows[j + 1]
    IN IF i <= Len(row) THEN row[i] ELSE NoCell

\* The value a cell holds: that of its one field (the number of a BigIntValue), null without.
IsNumberCell(cell, n) ==
    \/ cell.kind \in {"DoubleValue", "IntegerValue", "BigIntValue"} /\ cell.value = JsNumber(Num(n))
    \/ cell.kind = "BigIntValue" /\ cell.value = JsString(ToString(n))
HeldValue(cell) ==
    IF cell.kind \in {"empty", "undefined"} THEN JsNull
    ELSE IF cell.kind = "BigIntValue"
    THEN JsNumber(Num(CHOOSE n \in (0 - 9)..99 : IsNumberCell(cell, n)))
    ELSE cell.value

\* C13: of a result set of k rows the data rows are rows 2..k in order, none when k <= 1, one
\* normalized row for each; in each the i-th column name is bound to the value of the i-th cell
\* of that row.
C13_HeaderDroppedPositional ==
    npc = "responded"
    => LET columns == resultsResponse.ColumnInfo
           k == Len(resultsResponse.Rows)
       IN /\ Len(items) = (IF k <= 1 THEN 0 ELSE k - 1)
          /\ Len(normalized) = Len(items)
          /\ \A j \in 1..Len(items) :
                /\ DOMAIN items[j] = ColumnNames
                /\ \A i \in 1..Len(columns) : items[j][columns[i]] = HeldValue(DataCell(j, i))
                /\ normalized[j].metric_date = StringOf(HeldValue(DataCell(j, 1)))

\* Two data rows came out in the order of the result set, and the header row did not.
C13_Witness ==
    /\ npc = "responded"
    /\ Len(resultsResponse.Rows) = 3
    /\ Len(normalized) = 2
    /\ normalized[1].metric_date = "2024-01-16"
    /\ normalized[2].metric_date = "2024-01-14"
    /\ items[2]["hrv"] = JsString("60")

\* A raw record with the upstream readiness_score replaced by another.
WithUpstreamScore(raw, upstream) ==
    [col \in DOMAIN raw \cup {"readiness_score"} |->
        IF col = "readiness_score" THEN upstream ELSE raw[col]]
UpstreamScores == {JsUndefined, JsNull, JsString("99"), JsString("abc"), JsNumber(Num(12))}
SixFields(row) ==
    [hrv |-> row.hrv, resting_hr |-> row.resting_hr, sleep_score |-> row.sleep_score,
     recovery_index |-> row.recovery_index, movement_index |-> row.movement_index,
     steps |-> row.steps]

ParsedStrings ==
    ("42" :> Num(42)) @@ ("0" :> Num(0)) @@ ("-5" :> Num(0 - 5)) @@ (" 7" :> Num(7))
    @@ ("12abc" :> Num(12)) @@ ("1" :> Num(1)) @@ ("Infinity" :> Infinity)
    @@ ("2024-01-15" :> Num(2024))

\* The number a numeric field is to hold for a cell.
NumberAsStated(cell) ==
    IF cell.kind \in {"DoubleValue", "IntegerValue", "BigIntValue"} THEN HeldValue(cell).num
    ELSE IF cell.kind = "VarCharValue" /\ cell.value.str \in DOMAIN ParsedStrings
    THEN ParsedStrings[cell.value.str]
    ELSE Null

\* C19: a numeric field holds the number itself for a double or integer cell (0 for 0), the
\* parsed number for a string cell that parses as a number (one that begins with a number, as
\* parseFloat has it), and null for the empty string, a string that does not, a boolean, a
\* timestamp, a date, a cell without a value and a missing cell or column; every data row of
\* the result set has its normalized row.
C19_NumericFieldsByCellKind ==
    npc = "responded"
    => /\ Len(normalized) + 1 = Len(resultsResponse.Rows) \/ resultsResponse.Rows = <<>>
       /\ \A j \in 1..Len(normalized) :
             /\ \A i \in 1..Len(resultsResponse.ColumnInfo) :
                   LET col == resultsResponse.ColumnInfo[i]
                   IN (col \in NumericFields /\ DataCell(j, i) \in Cells)
                      => normalized[j][col] = NumberAsStated(DataCell(j, i))
             /\ \A col \in NumericFields \ ColumnNames : normalized[j][col] = Null

\* A double cell of 0 was normalized to 0.
C19_Witness ==
    /\ npc = "responded"
    /\ Len(normalized) = 1
    /\ resultsResponse.ColumnInfo[2] = "hrv"
    /\ DataCell(1, 2) = Cell("DoubleValue", JsNumber(Num(0)))
    /\ normalized[1].hrv = Num(0)

\* C20 as stated: a boolean field is true exactly when the cell is the boolean true, the number
\* 1 or a string equal to "true" ignoring case, and false for every other cell.
C20_TrueOnlyForTrueOneOrTrueString ==
    npc = "responded"
    => \A j \in 1..Len(normalized) :
          \A i \in 1..Len(resultsResponse.ColumnInfo) :
             LET col == resultsResponse.ColumnInfo[i]
                 cell == DataCell(j, i)
             IN (col \in BooleanFields /\ cell \in Cells)
                => normalized[j][col]
                     = \/ cell = Cell("BooleanValue", JsBoolean(TRUE))
                       \/ IsNumberCell(cell, 1)
                       \/ cell.kind = "VarCharValue" /\ cell.value.str \in {"true", "TRUE", "True"}

\* C20 (amended): a boolean field is true exactly when the cell is the boolean true, a number
\* other than 0, a string equal to "true" ignoring case or the string "1"; it is false for every
\* other cell, a cell without a value and a missing cell or column included.
C20_TrueForTrueNonZeroOrTrueString ==
    npc = "responded"
    => \A j \in 1..Len(normalized) :
          /\ \A i \in 1..Len(resultsResponse.ColumnInfo) :
                LET col == resultsResponse.ColumnInfo[i]
                    cell == DataCell(j, i)
                IN (col \in BooleanFields /\ cell \in Cells)
                   => normalized[j][col]
                        = \/ cell = Cell("BooleanValue", JsBoolean(TRUE))
                          \/ /\ cell.kind \in {"DoubleValue", "IntegerValue", "BigIntValue"}
                             /\ ~IsNumberCell(cell, 0)
                          \/ /\ cell.kind = "VarCharValue"
                             /\ cell.value.str \in {"true", "TRUE", "True", "1"}
          /\ \A col \in BooleanFields \ ColumnNames : normalized[j][col] = FALSE

\* An integer cell of 2 was normalized to true.
C20_Witness ==
    /\ npc = "responded"
    /\ Len(normalized) = 1
    /\ resultsResponse.ColumnInfo[3] = "low_hrv_flag"
    /\ DataCell(1, 3) = Cell("IntegerValue", JsNumber(Num(2)))
    /\ normalized[1].low_hrv_flag = TRUE

-----------------------------------------------------------------------------
(* Properties of overlapping range fetches (RaceSpec) and of the frame of a request (Spec) *)

\* C26: the loading flag is true in every state in which at least one fetch started by
\* handleDateRangeChange is still in flight, also when two fetches overlap and one of them
\* completes before the other.
C26_LoadingWhileInFlight ==
    pending # <<>> => loading = TRUE

\* C27: once two overlapping fetches have both completed, in either order, and the one sent
\* last succeeded, the rows on display are the rows of that last request.
C27_LatestRequestWins ==
    (pending = <<>> /\ fetchHistory.status = "ok") => metrics = fetchHistory.rows

\* C28: every continuation merges into the cache as it is when the continuation runs: after the
\* step the cache holds exactly the dates it held and the dates of the response, unique and in
\* ascending order. So for two overlapping fetches completing in either order the cache holds
\* the dates of the cache the later call saw and of both responses, and none is lost.
C28_OverlapMergesAll ==
    /\ [][MergeStep =>
            /\ DatesOf(allMetrics') = DatesOf(allMetrics) \cup DatesOf(metrics')
            /\ IsSortedUnique(allMetrics')]_vars
    /\ [](DatesOf(fetchHistory.snapshot) \subseteq DatesOf(allMetrics))
    /\ [](fetchHistory.status = "ok" => DatesOf(fetchHistory.rows) \subseteq DatesOf(allMetrics))

\* Two overlapping fetches have completed, the one sent last first: the rows on display are
\* those of the earlier request, and the cache holds the dates of both responses on top of the
\* rows it held when the requests were sent.
C28_Witness ==
    /\ pending = <<>>
    /\ lastOp.op = "success"
    /\ fetchHistory.status = "ok"
    /\ metrics # <<>>
    /\ fetchHistory.rows # <<>>
    /\ DatesOf(metrics) \cap DatesOf(fetchHistory.rows) = {}
    /\ Len(allMetrics) = Len(fetchHistory.snapshot) + Len(metrics) + Len(fetchHistory.rows)

\* C29: in every state selectedMetrics is the cache row whose date is selectedDate when the
\* cache holds such a row, and null otherwise; also after a merge has brought that date in.
C29_SelectionFollowsCache ==
    selectedMetrics = FindByDate(allMetrics, selectedDate)

\* The step that sends a fetch, the step of its catch block, and a request served from the cache.
SendStep == Len(pending') > Len(pending)
FailureStep == Len(pending') < Len(pending) /\ lastOp'.op = "failure"
ServedFromCacheStep == lastOp' # lastOp /\ lastOp'.op \in {"preset", "custom"} /\ lastOp'.sent = 0

\* C30: a fetch that fails leaves the cache and the rows on display as they were: neither the
\* step that sends it nor the step of its catch block changes them, and the latter sets error to
\* a non-empty message and loading to false. A request served from the cache changes the rows
\* on display only: cache, loading, error and the fetches in flight stay as they are.
C30_FailureLeavesRows ==
    /\ [][SendStep => allMetrics' = allMetrics /\ metrics' = metrics]_vars
    /\ [][FailureStep =>
            /\ allMetrics' = allMetrics
            /\ metrics' = metrics
            /\ error' # NULL
            /\ Len(error') > 0
            /\ loading' = FALSE]_vars
    /\ [][ServedFromCacheStep =>
            /\ allMetrics' = allMetrics
            /\ loading' = loading
            /\ error' = error
            /\ pending' = pending
            /\ selectedDate' = selectedDate
            /\ selectedMetrics' = selectedMetrics]_vars

\* A fetch sent on a non-empty cache has failed: the rows are on display, the message is set.
C30_Witness ==
    /\ lastOp.op = "failure"
    /\ pending = <<>>
    /\ error # NULL
    /\ ~loading
    /\ allMetrics # <<>>
    /\ metrics # <<>>

-----------------------------------------------------------------------------
(* Properties of the statistics over the cache (StatsSpec) *)

ScoredDays == {i \in 1..Len(allMetrics) : allMetrics[i].readiness_score # Null}
ScoreOfDay(i) == allMetrics[i].readiness_score[1]
HighestDays == {i \in ScoredDays : \A j \in ScoredDays : ScoreOfDay(j) <= ScoreOfDay(i)}
LowestDays == {i \in ScoredDays : \A j \in ScoredDays : ScoreOfDay(j) >= ScoreOfDay(i)}
FirstOf(days) == CHOOSE i \in days : \A j \in days : i <= j
LastOf(days) == CHOOSE i \in days : \A j \in days : i >= j

\* C24 as stated: over the cache rows with a score, the best day is the first row in
\* ascending-date order among those with the highest score and the worst day the first row
\* among those with the lowest score; when no row has a score, neither is reported.
C24_FirstOfTiedDays ==
    tpc = "rendered"
    => IF ScoredDays = {} THEN bestWorstDays = <<>>
       ELSE /\ bestWorstDays # <<>>
            /\ bestWorstDays[1].best = allMetrics[FirstOf(HighestDays)]
            /\ bestWorstDays[1].worst = allMetrics[FirstOf(LowestDays)]

\* C24 (amended): the best day is the first row in ascending-date order among those with the
\* highest score, the worst day the last row among those with the lowest score; when no row
\* has a score, neither is reported.
C24_FirstBestLastWorst ==
    tpc = "rendered"
    => IF ScoredDays = {} THEN bestWorstDays = <<>>
       ELSE /\ bestWorstDays # <<>>
            /\ bestWorstDays[1].best = allMetrics[FirstOf(HighestDays)]
            /\ bestWorstDays[1].worst = allMetrics[LastOf(LowestDays)]

\* Two days share the lowest score and a third has a higher one: the worst day reported is the
\* later of the two.
C24_Witness ==
    /\ tpc = "rendered"
    /\ Cardinality(LowestDays) = 2
    /\ Cardinality(HighestDays) = 1
    /\ bestWorstDays # <<>>
    /\ bestWorstDays[1].worst = allMetrics[LastOf(LowestDays)]
    /\ bestWorstDays[1].worst # allMetrics[FirstOf(LowestDays)]
    /\ bestWorstDays[1].best = allMetrics[FirstOf(HighestDays)]

\* The lengths k of the suffixes of the cache all of whose rows are non-anomalous with a score,
\* and of those all of whose rows are anomalous.
GoodSuffixes ==
    {k \in 0..Len(allMetrics) :
        \A i \in (Len(allMetrics) - k + 1)..Len(allMetrics) :
            allMetrics[i].is_anomalous = FALSE /\ allMetrics[i].readiness_score # Null}
BadSuffixes ==
    {k \in 0..Len(allMetrics) :
        \A i \in (Len(allMetrics) - k + 1)..Len(allMetrics) : allMetrics[i].is_anomalous = TRUE}

\* C25: the good streak is the length of the longest suffix of the date-sorted rows in which
\* every row is non-anomalous with a score, the bad streak that of the longest suffix in which
\* every row is anomalous; both are 0 for an empty cache, they are never both positive, and both
\* are 0 when the last row is non-anomalous without a score.
C25_StreaksAreLongestSuffixes ==
    tpc = "rendered"
    => /\ IsSortedUnique(allMetrics)
       /\ streaks.good = LastOf(GoodSuffixes)
       /\ streaks.bad = LastOf(BadSuffixes)
       /\ (allMetrics = <<>> => streaks.good = 0 /\ streaks.bad = 0)
       /\ ~(streaks.good > 0 /\ streaks.bad > 0)
       /\ (allMetrics # <<>>
           /\ allMetrics[Len(allMetrics)].is_anomalous = FALSE
           /\ allMetrics[Len(allMetrics)].readiness_score = Null
           => streaks.good = 0 /\ streaks.bad = 0)

\* A good streak of two days, stopped by a non-anomalous day without a score.
C25_Witness ==
    /\ tpc = "rendered"
    /\ Len(allMetrics) >= 3
    /\ streaks.good = 2
    /\ streaks.bad = 0
    /\ allMetrics[Len(allMetrics) - 2].is_anomalous = FALSE
    /\ allMetrics[Len(allMetrics) - 2].readiness_score = Null

-----------------------------------------------------------------------------
(* The explanation routes: validation and configuration errors *)

\* C21: for every date parameter that does not match ^\d{4}-\d{2}-\d{2}$ the by-date route
\* answers 400 and sends no S3 request, whatever the configuration; fetchExplanationByDate
\* rejects such a date without issuing an HTTP request.
C21_InvalidDateIs400 ==
    /\ (xroute.endpoint = "date" /\ ~MatchesDateFormat(dateParam)) => s3Sent = 0
    /\ (xroute.endpoint = "date" /\ xcaller = "direct" /\ ~MatchesDateFormat(dateParam)
            /\ xpc = "responded")
           => xresponse.status = 400
    /\ (xcaller = "helper" /\ ~MatchesDateFormat(dateParam) /\ xpc = "returned")
           => (httpSent = 0 /\ helperResult.outcome = "threw")

\* C22: the request for the date "2024-13-40" is answered 400 and no S3 request is sent.
C22_NoSuchDayIs400 ==
    (xroute.endpoint = "date" /\ dateParam = "2024-13-40")
        => /\ s3Sent = 0
           /\ (xpc = "responded" /\ xcaller = "direct") => xresponse.status = 400

\* The required identifiers process.env lacks, each by a word of its variable's name.
MissingIdentifiers(env) ==
    (IF env.region THEN {} ELSE {"REGION"})
    \cup (IF env.bucket THEN {} ELSE {"BUCKET"})
    \cup (IF env.patient THEN {} ELSE {"PATIENT_ID"})

\* Everything the body of an error response says.
ResponseText(resp) ==
    resp.error \o " " \o resp.details \o " " \o resp.originalError \o " "
        \o JoinComma(resp.missingVariables)

\* C23: in the explanation endpoints a request made while required identifiers (region,
\* bucket, subject id) are missing fails without an S3 request and its error response names
\* every missing identifier. The by-date route is asked with a well-formed date.
C23_EveryMissingIdentifierNamed ==
    (/\ xpc = "responded"
     /\ xroute.endpoint = "date" => MatchesDateFormat(dateParam)
     /\ MissingIdentifiers(xenv) # {})
        => /\ s3Sent = 0
           /\ xresponse.status >= 400
           /\ \A word \in MissingIdentifiers(xenv) : Includes(ResponseText(xresponse), word)

====
